---- MODULE Spec2Model ----
(***************************************************************************)
(* AdmitGuard pipeline (src/src/Script.py) as a state machine over the     *)
(* Google Sheets tabs it reads and writes.                                 *)
(*                                                                         *)
(* A tab is a sequence of lines, a line a sequence of cells, the first     *)
(* line of a tab being what gspread's get_all_records takes as the header. *)
(* A cell is a text: the sequence of its characters, a piece the script    *)
(* never looks into being kept whole.  A DataFrame is [cols, rows]: the    *)
(* column names in order and the rows as functions from column name to     *)
(* cell.                                                                   *)
(*                                                                         *)
(* Numbers: a decimal cell is parsed to thousandths (Milli); the code's    *)
(* float arithmetic on them is modelled exactly (IEEE binary64, see Fl).   *)
(***************************************************************************)
EXTENDS Integers, Sequences, FiniteSets, TLC

VARIABLES
    raw,                 \* Raw sheet, tab RAW_TAB (header line first)
    config,              \* Config tab as read: Parameter -> Value
    clean,               \* output sheet, tab CLEAN_TAB
    rejected,            \* output sheet, tab REJECTED_TAB
    exception,           \* output sheet, tab EXCEPTION_TAB
    scores,              \* test score sheet, tab TEST_TAB
    interview,           \* interview sheet, tab INTERVIEW_TAB
    runlog,              \* output sheet, tab RUN_LOG_TAB: one record per logged run
    pc,                  \* position of the running script
    df,                  \* Step 1: the standardised raw DataFrame
    all_raw_values,      \* Step 1: the fresh read of the raw tab
    pipeline_status_col, \* Step 1: 1-based column of "Pipeline Status"
    email_to_sheet_row,  \* Step 2: email -> sheet row number
    clean_df,            \* Step 2/4: the DataFrame Step 5 screens
    run,                 \* the run tracker
    errors,              \* run["errors"]
    clean_rows,          \* Step 2: the row dicts routed to Clean this run
    rejected_rows,       \* Step 2: the row dicts routed to Rejected this run
    exception_rows,      \* Step 2: the row dicts routed to Exception this run
    pipeline_status_updates, \* Step 2: the (sheet row, status) pairs to write
    started              \* number of executions of the script so far

vars == <<raw, config, clean, rejected, exception, scores, interview, runlog,
          pc, df, all_raw_values, pipeline_status_col, email_to_sheet_row,
          clean_df, run, errors, clean_rows, rejected_rows, exception_rows,
          pipeline_status_updates, started>>

-----------------------------------------------------------------------------
(* Bounds of the model *)

MaxRaw == 2
MaxRuns == 3
MaxScores == 3

-----------------------------------------------------------------------------
(* Generic helpers *)

Range(s) == {s[i] : i \in 1..Len(s)}

RECURSIVE SeqFilter(_, _)
SeqFilter(s, keep) ==
    IF s = <<>> THEN <<>>
    ELSE IF Head(s) \in keep THEN <<Head(s)>> \o SeqFilter(Tail(s), keep)
    ELSE SeqFilter(Tail(s), keep)

IndexOf(s, x) == CHOOSE i \in 1..Len(s) : s[i] = x /\ \A j \in 1..(i-1) : s[j] # x

Max(a, b) == IF a >= b THEN a ELSE b

RECURSIVE Pow2(_)
Pow2(k) == IF k = 0 THEN 1 ELSE 2 * Pow2(k - 1)

RECURSIVE Pow2Mod(_, _)
Pow2Mod(k, m) == IF k = 0 THEN 1 ELSE (2 * Pow2Mod(k - 1, m)) % m

Abs(x) == IF x < 0 THEN -x ELSE x

-----------------------------------------------------------------------------
(* Python floats.                                                           *)
(*                                                                          *)
(* Every number the script compares is float(<decimal text>) or a           *)
(* difference of two such floats.  A float is held exactly as [n, k, d]:    *)
(* the value n/1000 + d/(1000 * 2^k), where n is the decimal in thousandths,*)
(* 2^-k is the spacing of binary64 values at that magnitude (53 significant *)
(* bits) and d is the rounding error in units of 1/(1000 * 2^k).  Only      *)
(* remainders modulo 1000 and 2000 are ever needed, so 32-bit integers      *)
(* suffice.  Domain: decimals of magnitude below 128 with three places.     *)

InBinade(n, j) ==
    IF j >= 0 THEN 1000 * Pow2(j) <= n /\ n < 1000 * Pow2(j + 1)
    ELSE 1000 <= n * Pow2(-j) /\ n * Pow2(-j) < 2000

\* floor(log2(n/1000)) for n > 0
Binade(n) == CHOOSE j \in -10..6 : InBinade(n, j)

IsPow2(n) ==
    LET j == Binade(n)
    IN  IF j >= 0 THEN n = 1000 * Pow2(j) ELSE n * Pow2(-j) = 1000

FlZero == [n |-> 0, k |-> 0, d |-> 0]

\* d * 2^sh (an exact float has d = 0 at any scale)
Scale(d, sh) == IF d = 0 THEN 0 ELSE d * Pow2(sh)

\* float("<n/1000>"): the binary64 value nearest to the decimal
Fl(n) ==
    IF n = 0 THEN FlZero
    ELSE LET a == Abs(n)
             k == 52 - Binade(a)
             r == ((a % 1000) * Pow2Mod(k, 1000)) % 1000
             d == IF r = 0 THEN 0 ELSE IF r < 500 THEN -r ELSE 1000 - r
         IN  [n |-> n, k |-> k, d |-> IF n < 0 THEN -d ELSE d]

FlNeg(a) == [n |-> -a.n, k |-> a.k, d |-> -a.d]

\* a - b for floats a > b >= 0: the exact difference rounded to nearest, ties to even
FlSubPos(a, b) ==
    LET n  == a.n - b.n
        K  == Max(a.k, b.k)
        E  == Scale(a.d, K - a.k) - Scale(b.d, K - b.k)
        jr == Binade(n) - (IF IsPow2(n) /\ E < 0 THEN 1 ELSE 0)
        kr == 52 - jr
    IN  IF kr >= K THEN [n |-> n, k |-> kr, d |-> Scale(E, kr - K)]
        ELSE LET s  == K - kr
                 r  == ((n % 1000) * Pow2Mod(kr, 1000)) % 1000
                 r2 == (n * Pow2Mod(kr, 2000)) % 2000
                 cand(t) == 1000 * t - r
                 dist(t) == Abs(E - Pow2(s) * cand(t))
                 odd(t)  == IF (r2 + cand(t)) % 2000 = 0 THEN 0 ELSE 1
                 t0 == CHOOSE t \in -2..2 : \A u \in -2..2 :
                           u # t => \/ dist(t) < dist(u)
                                    \/ dist(t) = dist(u) /\ odd(t) < odd(u)
             IN  [n |-> n, k |-> kr, d |-> cand(t0)]

\* a - b for floats a, b >= 0
FlSub(a, b) ==
    IF a.n = b.n THEN FlZero
    ELSE IF a.n > b.n THEN FlSubPos(a, b)
    ELSE FlNeg(FlSubPos(b, a))

\* a < b
FlLess(a, b) ==
    IF a.n # b.n THEN a.n < b.n
    ELSE LET K == Max(a.k, b.k)
         IN  Scale(a.d, K - a.k) < Scale(b.d, K - b.k)

\* a <= b
FlLeq(a, b) == ~FlLess(b, a)

-----------------------------------------------------------------------------
(* Text.  A text is a sequence of pieces: one-character strings, and whole  *)
(* strings for what the script only copies or compares (names of columns,   *)
(* literal parts of messages, values such as "Goa").  A piece longer than   *)
(* one character is neither a blank, a digit nor a letter with a case.      *)

S(s) == <<s>>

BLANK == <<>>

DIGITS == {"0", "1", "2", "3", "4", "5", "6", "7", "8", "9"}

DigitVal(c) == CHOOSE v \in 0..9 : <<"0", "1", "2", "3", "4", "5", "6", "7", "8", "9">>[v + 1] = c

UPPERCASE == <<"A", "B", "C", "D", "E", "F", "G", "H", "I", "J", "K", "L", "M",
               "N", "O", "P", "Q", "R", "S", "T", "U", "V", "W", "X", "Y", "Z">>

LOWERCASE == <<"a", "b", "c", "d", "e", "f", "g", "h", "i", "j", "k", "l", "m",
               "n", "o", "p", "q", "r", "s", "t", "u", "v", "w", "x", "y", "z">>

\* \w of Python's re: letters, digits, underscore
WORD == DIGITS \cup Range(UPPERCASE) \cup Range(LOWERCASE) \cup {"_"}

LowerChar(c) ==
    IF c \in Range(UPPERCASE) THEN LOWERCASE[IndexOf(UPPERCASE, c)] ELSE c

UpperChar(c) ==
    IF c \in Range(LOWERCASE) THEN UPPERCASE[IndexOf(LOWERCASE, c)] ELSE c

RECURSIVE LStrip(_)
LStrip(t) == IF t # <<>> /\ Head(t) = " " THEN LStrip(Tail(t)) ELSE t

RECURSIVE RStrip(_)
RStrip(t) ==
    IF t # <<>> /\ t[Len(t)] = " " THEN RStrip(SubSeq(t, 1, Len(t) - 1)) ELSE t

\* str.strip()
Strip(t) == RStrip(LStrip(t))

\* str.lower()
Lower(t) == [i \in 1..Len(t) |-> LowerChar(t[i])]

\* .str.strip().str.lower()
StripLower(t) == Lower(Strip(t))

IsLetter(c) == c \in Range(UPPERCASE) \/ c \in Range(LOWERCASE)

\* str.title(): a letter that follows a letter is lower-cased, any other letter
\* upper-cased
TitleCase(t) ==
    [i \in 1..Len(t) |->
        IF i > 1 /\ IsLetter(t[i - 1]) THEN LowerChar(t[i]) ELSE UpperChar(t[i])]

\* .str.strip().str.title()
Title(t) == TitleCase(Strip(t))

\* re.sub(r"[^0-9]", "", s)
OnlyDigits(t) == SeqFilter(t, DIGITS)

StartsWith(t, pre) == Len(t) >= Len(pre) /\ SubSeq(t, 1, Len(pre)) = pre

\* sub in t
Contains(t, sub) ==
    \E i \in 1..(Len(t) - Len(sub) + 1) : SubSeq(t, i, i + Len(sub) - 1) = sub

\* the value of a text of digits, a blank text counting 0
RECURSIVE DigitsVal(_)
DigitsVal(t) ==
    IF t = <<>> THEN 0 ELSE 10 * DigitsVal(SubSeq(t, 1, Len(t) - 1)) + DigitVal(t[Len(t)])

AllDigits(t) == \A i \in 1..Len(t) : t[i] \in DIGITS

PadRight3(t) == [i \in 1..3 |-> IF i <= Len(t) THEN t[i] ELSE "0"]

\* float(s) of a text already stripped of blanks and sign
ParseUnsigned(body) ==
    LET dots == {i \in 1..Len(body) : body[i] = "."}
        dot  == IF dots = {} THEN Len(body) + 1 ELSE CHOOSE i \in dots : TRUE
        ip   == SubSeq(body, 1, dot - 1)
        fp   == SubSeq(body, dot + 1, Len(body))
    IN  IF /\ Cardinality(dots) <= 1
           /\ Len(ip) + Len(fp) >= 1
           /\ Len(ip) <= 6
           /\ Len(fp) <= 3
           /\ AllDigits(ip)
           /\ AllDigits(fp)
        THEN [ok |-> TRUE, n |-> 1000 * DigitsVal(ip) + DigitsVal(PadRight3(fp))]
        ELSE [ok |-> FALSE, n |-> 0]

Signed(p, neg) == IF neg THEN [p EXCEPT !.n = -p.n] ELSE p

IsNegative(t) == t # <<>> /\ t[1] = "-"

Unsigned(t) == IF t # <<>> /\ t[1] \in {"-", "+"} THEN Tail(t) ELSE t

\* float(s): [ok, n] with n the value in thousandths; ok = FALSE is ValueError.
\* Accepted here: up to six digits with at most three decimals, optionally signed.
ParseFloat(t) == Signed(ParseUnsigned(Unsigned(Strip(t))), IsNegative(Strip(t)))

IntOf(body) ==
    IF body # <<>> /\ Len(body) <= 9 /\ AllDigits(body)
    THEN [ok |-> TRUE, n |-> DigitsVal(body)]
    ELSE [ok |-> FALSE, n |-> 0]

\* int(s): [ok, n]; ok = FALSE is ValueError.  Accepted here: up to nine digits.
ParseInt(t) == Signed(IntOf(Unsigned(Strip(t))), IsNegative(Strip(t)))

\* re.match(r"^[6-9]\d{9}$", phone)
MatchPhone(t) == Len(t) = 10 /\ t[1] \in {"6", "7", "8", "9"} /\ AllDigits(t)

\* re.match(r"^\d{12}$", adhar)
MatchAdhar(t) == Len(t) = 12 /\ AllDigits(t)

\* re.match(r"^[\w\.-]+@[\w\.-]+\.\w{2,}$", email)
MatchEmail(t) ==
    \E at \in 2..Len(t) : \E dot \in (at + 2)..(Len(t) - 2) :
        /\ t[at] = "@"
        /\ t[dot] = "."
        /\ \A i \in 1..(at - 1) : t[i] \in WORD \cup {".", "-"}
        /\ \A i \in (at + 1)..(dot - 1) : t[i] \in WORD \cup {".", "-"}
        /\ \A i \in (dot + 1)..Len(t) : t[i] \in WORD

\* no prefix is removed: not what the script does
PrefixKept(p) == p

PhoneDigits(p) ==
    IF Len(p) = 13 /\ StartsWith(p, <<"0", "9", "1">>) THEN SubSeq(p, 4, Len(p))
    ELSE IF Len(p) = 12 /\ StartsWith(p, <<"9", "1">>) THEN SubSeq(p, 3, Len(p))
    ELSE IF Len(p) = 11 /\ StartsWith(p, <<"0">>) THEN SubSeq(p, 2, Len(p))
    ELSE p

\* the script's normalise_phone
normalise_phone(rawv) == PhoneDigits(OnlyDigits(Strip(rawv)))

DigitStr(v) == <<"0", "1", "2", "3", "4", "5", "6", "7", "8", "9">>[v + 1]

RECURSIVE IntChars(_)
IntChars(v) == IF v < 10 THEN <<DigitStr(v)>> ELSE IntChars(v \div 10) \o <<DigitStr(v % 10)>>

\* str(int)
FormatInt(v) == IF v < 0 THEN <<"-">> \o IntChars(-v) ELSE IntChars(v)

Decimals(f) ==
    IF f = 0 THEN <<"0">>
    ELSE IF f % 100 = 0 THEN <<DigitStr(f \div 100)>>
    ELSE IF f % 10 = 0 THEN <<DigitStr(f \div 100), DigitStr((f \div 10) % 10)>>
    ELSE <<DigitStr(f \div 100), DigitStr((f \div 10) % 10), DigitStr(f % 10)>>

\* str(float) of the float parsed from the decimal n/1000: the shortest text that
\* parses back to it, with at least one decimal
FormatFloat(n) ==
    (IF n < 0 THEN <<"-">> ELSE <<>>)
    \o IntChars(Abs(n) \div 1000) \o <<".">> \o Decimals(Abs(n) % 1000)

RECURSIVE LStripZeros(_)
LStripZeros(t) == IF Len(t) > 1 /\ Head(t) = "0" THEN LStripZeros(Tail(t)) ELSE t

\* str(int(s)) for a text of digits of any length
CanonicalInt(body, neg) ==
    (IF neg /\ LStripZeros(body) # <<"0">> THEN <<"-">> ELSE <<>>) \o LStripZeros(body)

NumericiseStripped(t, orig) ==
    IF Unsigned(t) # <<>> /\ AllDigits(Unsigned(t))
    THEN CanonicalInt(Unsigned(t), IsNegative(t))
    ELSE IF ParseFloat(t).ok THEN FormatFloat(ParseFloat(t).n)
    ELSE orig

\* gspread's numericise, applied by get_all_records() to every value: a string
\* that int() or float() accepts becomes that number, shown here as str() prints
\* it; any other string stays as it is
Numericise(t) == NumericiseStripped(Strip(t), t)

-----------------------------------------------------------------------------
(* Sheets and DataFrames.                                                   *)
(*                                                                          *)
(* A tab is a sequence of lines, a line a sequence of cells, a cell a text. *)
(* A DataFrame is [cols, rows]: the column names (texts) in order and each  *)
(* row a function from column name to cell.                                 *)

\* a missing value of a DataFrame (NaN)
NAN == S("<NaN>")

\* str(NaN)
NAN_TEXT == <<"n", "a", "n">>

NoDF == [cols |-> <<>>, rows |-> <<>>]

\* df.empty
DFEmpty(d) == Len(d.rows) = 0 \/ Len(d.cols) = 0

HasCol(d, c) == c \in Range(d.cols)

CellAt(line, j) == IF j <= Len(line) THEN line[j] ELSE BLANK

Width(tab) == IF tab = <<>> THEN 0
              ELSE CHOOSE w \in {Len(tab[i]) : i \in 1..Len(tab)} :
                       \A i \in 1..Len(tab) : Len(tab[i]) <= w

PadTo(tab, w) == [i \in 1..Len(tab) |-> [j \in 1..w |-> CellAt(tab[i], j)]]

\* ws.get_all_values(): every line padded to the width of the widest
get_all_values(tab) == PadTo(tab, Width(tab))

RECURSIVE TrimRight(_)
TrimRight(line) ==
    IF line # <<>> /\ line[Len(line)] = BLANK
    THEN TrimRight(SubSeq(line, 1, Len(line) - 1))
    ELSE line

\* ws.row_values(1)
row_values1(tab) == IF tab = <<>> THEN <<>> ELSE TrimRight(tab[1])

IsUnique(line) == \A i, j \in 1..Len(line) : line[i] = line[j] => i = j

\* ws.get_all_records() raises when the first line, which it takes as the header,
\* repeats a name
RecordsRaise(tab) == tab # <<>> /\ ~IsUnique(get_all_values(tab)[1])

Records(vals) ==
    [cols |-> vals[1],
     rows |-> [i \in 1..(Len(vals) - 1) |->
                 [c \in Range(vals[1]) |-> Numericise(vals[i + 1][IndexOf(vals[1], c)])]]]

\* pd.DataFrame(ws.get_all_records()): the first line is the header, every later
\* line a record keyed by it; a tab with one line or none gives no record, and then
\* the DataFrame has no column either
RecordsDF(tab) == IF Len(tab) <= 1 THEN NoDF ELSE Records(get_all_values(tab))

\* get_sheet_df(sheet_obj, tab_name): an empty DataFrame on failure
get_sheet_df(tab) == IF RecordsRaise(tab) THEN NoDF ELSE RecordsDF(tab)

\* str(value): NaN prints as "nan"
AsStr(cell) == IF cell = NAN THEN NAN_TEXT ELSE cell

\* df[col].astype(str).str.strip().str.lower() of one row
EmailOf(row, col) == StripLower(AsStr(row[col]))

ColumnEmails(d, col) ==
    IF ~DFEmpty(d) /\ HasCol(d, col)
    THEN {EmailOf(d.rows[i], col) : i \in 1..Len(d.rows)}
    ELSE {}

\* get_sheet_emails(sheet_obj, tab_name, col): an empty set on failure
get_sheet_emails(tab, col) == ColumnEmails(get_sheet_df(tab), col)

\* df.values.tolist()
ValuesOf(d) == [i \in 1..Len(d.rows) |-> [j \in 1..Len(d.cols) |-> d.rows[i][d.cols[j]]]]

\* df.fillna("").astype(str)
FillNa(d) ==
    [cols |-> d.cols,
     rows |-> [i \in 1..Len(d.rows) |->
                 [c \in Range(d.cols) |-> IF d.rows[i][c] = NAN THEN BLANK ELSE d.rows[i][c]]]]

Project(d, keep) ==
    [cols |-> keep,
     rows |-> [i \in 1..Len(d.rows) |-> [c \in Range(keep) |-> d.rows[i][c]]]]

\* df.drop(columns = drop, errors = "ignore")
DropCols(d, drop) == Project(d, SeqFilter(d.cols, Range(d.cols) \ drop))

WithCol(d, c, cols2, F(_)) ==
    [cols |-> cols2,
     rows |-> [i \in 1..Len(d.rows) |->
                 [x \in Range(cols2) |->
                     IF x = c THEN F(IF HasCol(d, c) THEN d.rows[i][c] ELSE NAN)
                     ELSE d.rows[i][x]]]]

\* df[c] = F(old cell) for every row; the column is appended when it is new
SetCol(d, c, F(_)) == WithCol(d, c, IF HasCol(d, c) THEN d.cols ELSE Append(d.cols, c), F)

Pick(d, idx) == [cols |-> d.cols, rows |-> [i \in 1..Len(idx) |-> d.rows[idx[i]]]]

\* df[mask]: the rows whose position is in keep, in order
RowsAt(d, keep) == Pick(d, SeqFilter([i \in 1..Len(d.rows) |-> i], keep))

\* pd.DataFrame(dicts): every dict of one list has the keys `cols`, in that order
DataFrame(dicts, cols) ==
    IF dicts = <<>> THEN NoDF ELSE [cols |-> cols, rows |-> dicts]

Padded(rows, cols) ==
    [i \in 1..Len(rows) |->
        [c \in Range(cols) |-> IF c \in DOMAIN rows[i] THEN rows[i][c] ELSE NAN]]

ConcatOn(a, b, cols) == [cols |-> cols, rows |-> Padded(a.rows, cols) \o Padded(b.rows, cols)]

\* pd.concat([a, b], ignore_index = True)
Concat(a, b) == ConcatOn(a, b, a.cols \o SeqFilter(b.cols, Range(b.cols) \ Range(a.cols)))

LineAt(tab, i) == IF i <= Len(tab) THEN tab[i] ELSE <<>>

\* one cell of a tab written at (r, c), the tab growing as needed
SetCell(tab, r, c, v) ==
    [i \in 1..Max(Len(tab), r) |->
        IF i = r THEN [j \in 1..Max(Len(LineAt(tab, i)), c) |->
                          IF j = c THEN v ELSE CellAt(LineAt(tab, i), j)]
        ELSE LineAt(tab, i)]

\* the lines ws.update([df.columns.tolist()] + df.values.tolist()) writes
HeaderAndValues(d) == <<d.cols>> \o ValuesOf(d)

-----------------------------------------------------------------------------
(* Configuration and thresholds (Step 1) *)

MANDATORY_FIELDS ==
    <<"First Name", "Last Name", "Phone Number", "Email Address", "Adhar Number",
      "Gender", "Date of Birth", "State", "City", "Highest Qualification",
      "Graduation Year", "CGPA", "Total Percentage">>

\* the second argument of each config.get
DEFAULTS ==
    "Exception Buffer PCT" :> <<"1", ".", "0">> @@
    "Exception Buffer CGPA" :> <<"0", ".", "1">> @@
    "Min Percentage" :> <<"6", "0">> @@
    "Min CGPA" :> <<"6", ".", "0">> @@
    "Graduation Year Min" :> <<"2", "0", "1", "0">> @@
    "Graduation Year Max" :> <<"2", "0", "2", "5">> @@
    "Max Experience" :> <<"4", "0">> @@
    "Min Test Score" :> <<"4", "0">>

\* config.get(name, default)
CfgGet(cfg, name) == IF name \in DOMAIN cfg THEN cfg[name] ELSE DEFAULTS[name]

FLOAT_PARAMS == {"Exception Buffer PCT", "Exception Buffer CGPA", "Min Percentage",
                 "Min CGPA", "Max Experience", "Min Test Score"}

INT_PARAMS == {"Graduation Year Min", "Graduation Year Max"}

\* no float() or int() of lines 211-220 raises ValueError
ConfigParses(cfg) ==
    /\ \A p \in FLOAT_PARAMS : ParseFloat(CfgGet(cfg, p)).ok
    /\ \A p \in INT_PARAMS : ParseInt(CfgGet(cfg, p)).ok

\* the thresholds in thousandths (years as integers)
Threshold(cfg, name) ==
    IF name \in INT_PARAMS THEN ParseInt(CfgGet(cfg, name)).n
    ELSE ParseFloat(CfgGet(cfg, name)).n

-----------------------------------------------------------------------------
(* Messages: an f-string is the concatenation of its literal pieces and of  *)
(* the texts of the values it formats.                                      *)

SEP == "; "

\* "; ".join(msgs)
RECURSIVE Join(_)
Join(msgs) ==
    IF msgs = <<>> THEN <<>>
    ELSE IF Len(msgs) = 1 THEN msgs[1]
    ELSE msgs[1] \o <<SEP>> \o Join(Tail(msgs))

\* ts(): the clock is not modelled
ts == S("<now>")

-----------------------------------------------------------------------------
(* Step 2: the validation rules of one row *)

\* str(row.get(field, "")).strip()
Field(row, field) == Strip(AsStr(IF S(field) \in DOMAIN row THEN row[S(field)] ELSE BLANK))

NULLISH == {<<"n", "a", "n">>, <<"n", "o", "n", "e">>}

\* not val or val.lower() in ("nan", "none")
IsNull(val) == val = <<>> \/ Lower(val) \in NULLISH

MissingMsgs(miss) == [i \in 1..Len(miss) |-> <<"'", miss[i], "' is missing">>]

\* 1. mandatory fields
MandatoryFailures(row) ==
    MissingMsgs(SeqFilter(MANDATORY_FIELDS,
                          {f \in Range(MANDATORY_FIELDS) : IsNull(Field(row, f))}))

\* 2. email format
EmailFormatFailures(row_email) ==
    IF row_email # <<>> /\ ~MatchEmail(row_email)
    THEN << <<"Invalid email format: '">> \o row_email \o <<"'">> >>
    ELSE <<>>

\* a rule that never reports a duplicate email: not what the script does
NoDuplicateEmail(row_email, seen_emails) == <<>>

\* 3. duplicate email
DuplicateEmailFailures(row_email, seen_emails) ==
    IF row_email \in seen_emails
    THEN << <<"Duplicate email: '">> \o row_email \o <<"'">> >>
    ELSE <<>>

\* 4. phone
PhoneFailures(phone) ==
    IF phone # <<>> /\ ~MatchPhone(phone)
    THEN << <<"Invalid phone '">> \o phone \o <<"' (must be 10 digits, start with 6-9)">> >>
    ELSE <<>>

\* a rule that checks the format of the Aadhaar number alone: not what the script
\* does
AdharFormatOnly(adhar, seen_adhars) ==
    IF adhar # <<>> /\ ~MatchAdhar(adhar)
    THEN << <<"Invalid Aadhaar '">> \o adhar \o <<"' (must be 12 digits)">> >>
    ELSE <<>>

\* 5. Aadhaar
AdharFailures(adhar, seen_adhars) ==
    (IF adhar # <<>> /\ ~MatchAdhar(adhar)
     THEN << <<"Invalid Aadhaar '">> \o adhar \o <<"' (must be 12 digits)">> >>
     ELSE <<>>)
    \o
    (IF adhar \in seen_adhars
     THEN << <<"Duplicate Aadhaar: '">> \o adhar \o <<"'">> >>
     ELSE <<>>)

\* a comparison that leaves the buffer out: not what the script does
BelowMinOnly(n, min, buf) == FlLess(Fl(n), Fl(min))

\* value < minimum - buffer, in floats
BelowBuffer(n, min, buf) == FlLess(Fl(n), FlSub(Fl(min), Fl(buf)))

\* value < minimum, in floats
BelowMin(n, min) == FlLess(Fl(n), Fl(min))

NoFailure == [hard |-> <<>>, soft |-> <<>>]

Hard(msg) == [hard |-> <<msg>>, soft |-> <<>>]

Soft(msg) == [hard |-> <<>>, soft |-> <<msg>>]

PercentageOf(pct_raw, p, min, buf) ==
    IF IsNull(pct_raw) THEN NoFailure
    ELSE IF ~p.ok
    THEN Hard(<<"Invalid percentage value: '">> \o pct_raw \o <<"'">>)
    ELSE IF ~(0 <= p.n /\ p.n <= 100000)
    THEN Hard(<<"Percentage ">> \o FormatFloat(p.n) \o <<" out of range (0-100)">>)
    ELSE IF BelowBuffer(p.n, min, buf)
    THEN Hard(<<"Percentage ">> \o FormatFloat(p.n) \o <<"% is below minimum ">>
              \o FormatFloat(min) \o <<"%">>)
    ELSE IF BelowMin(p.n, min)
    THEN Soft(<<"Percentage ">> \o FormatFloat(p.n) \o <<"% is slightly below minimum ">>
              \o FormatFloat(min) \o <<"% (within ">> \o FormatFloat(buf)
              \o <<"% buffer)">>)
    ELSE NoFailure

\* 6. percentage: [hard, soft]
PercentageCheck(pct_raw, cfg) ==
    PercentageOf(pct_raw, ParseFloat(pct_raw), Threshold(cfg, "Min Percentage"),
                 Threshold(cfg, "Exception Buffer PCT"))

CgpaOf(cgpa_raw, p, min, buf) ==
    IF IsNull(cgpa_raw) THEN NoFailure
    ELSE IF ~p.ok
    THEN Hard(<<"Invalid CGPA value: '">> \o cgpa_raw \o <<"'">>)
    ELSE IF ~(0 <= p.n /\ p.n <= 10000)
    THEN Hard(<<"CGPA ">> \o FormatFloat(p.n) \o <<" out of range (0-10)">>)
    ELSE IF BelowBuffer(p.n, min, buf)
    THEN Hard(<<"CGPA ">> \o FormatFloat(p.n) \o <<" is below minimum ">>
              \o FormatFloat(min))
    ELSE IF BelowMin(p.n, min)
    THEN Soft(<<"CGPA ">> \o FormatFloat(p.n) \o <<" is slightly below minimum ">>
              \o FormatFloat(min) \o <<" (within ">> \o FormatFloat(buf) \o <<" buffer)">>)
    ELSE NoFailure

\* 7. CGPA: [hard, soft]
CgpaCheck(cgpa_raw, cfg) ==
    CgpaOf(cgpa_raw, ParseFloat(cgpa_raw), Threshold(cfg, "Min CGPA"),
           Threshold(cfg, "Exception Buffer CGPA"))

GradYearOf(y, lo, hi) ==
    IF ~y.ok THEN << <<"Invalid graduation year">> >>
    ELSE IF ~(lo <= y.n /\ y.n <= hi)
    THEN << <<"Graduation year ">> \o FormatInt(y.n) \o <<" out of range (">>
            \o FormatInt(lo) \o <<"-">> \o FormatInt(hi) \o <<")">> >>
    ELSE <<>>

\* 8. graduation year
GradYearFailures(txt, cfg) ==
    GradYearOf(IF txt = <<>> THEN [ok |-> TRUE, n |-> 0] ELSE ParseInt(txt),
               Threshold(cfg, "Graduation Year Min"), Threshold(cfg, "Graduation Year Max"))

ExperienceOf(exp_raw, p, max) ==
    IF IsNull(exp_raw) THEN <<>>
    ELSE IF ~p.ok THEN << <<"Invalid experience value: '">> \o exp_raw \o <<"'">> >>
    ELSE IF p.n < 0 \/ p.n > max
    THEN << <<"Experience ">> \o FormatFloat(p.n) \o <<" yrs out of range (0-">>
            \o FormatFloat(max) \o <<")">> >>
    ELSE <<>>

\* 9. experience
ExperienceFailures(exp_raw, cfg) ==
    ExperienceOf(exp_raw, ParseFloat(exp_raw), Threshold(cfg, "Max Experience"))

Verdict(row, cfg, row_email, adhar, seen_emails, seen_adhars, pct, cgpa) ==
    [hard_failures |->
         MandatoryFailures(row) \o EmailFormatFailures(row_email)
         \o DuplicateEmailFailures(row_email, seen_emails)
         \o PhoneFailures(Field(row, "Phone Number")) \o AdharFailures(adhar, seen_adhars)
         \o pct.hard \o cgpa.hard
         \o GradYearFailures(Field(row, "Graduation Year"), cfg)
         \o ExperienceFailures(Field(row, "Total Experience"), cfg),
     soft_failures |-> pct.soft \o cgpa.soft,
     seen_emails |-> seen_emails \cup {row_email},
     seen_adhars |-> seen_adhars \cup {adhar}]

\* str(row.get("Email Address", "")).strip().lower()
RowEmail(row) ==
    StripLower(AsStr(IF S("Email Address") \in DOMAIN row
                     THEN row[S("Email Address")] ELSE BLANK))

\* the body of the loop of Step 2 up to the routing: the hard and the soft failures
\* of one row, and the seen sets after it
Validate(row, cfg, seen_emails, seen_adhars) ==
    Verdict(row, cfg, RowEmail(row), Field(row, "Adhar Number"), seen_emails, seen_adhars,
            PercentageCheck(Field(row, "Total Percentage"), cfg),
            CgpaCheck(Field(row, "CGPA"), cfg))

-----------------------------------------------------------------------------
(* The applicants' form: what lands in the Raw sheet *)

RAW_HEADER ==
    <<"Submission ID", "Respondent ID", "Submitted at", "First Name", "Last Name",
      "Phone Number", "Email Address", "Adhar Number", "Gender", "Date of Birth",
      "State", "City", "Highest Qualification", "Graduation Year", "CGPA",
      "Total Percentage", "Total Experience">>

TALLY_META == <<"Submission ID", "Respondent ID", "Submitted at">>

Names(strings) == [j \in 1..Len(strings) |-> S(strings[j])]

SUBMISSION_IDS == <<"sub-1", "sub-2", "sub-3", "sub-4", "sub-5">>
RESPONDENT_IDS == <<"resp-1", "resp-2", "resp-3", "resp-4", "resp-5">>
SUBMITTED_AT   == <<"day-1", "day-2", "day-3", "day-4", "day-5">>

\* the Aadhaar number of the k-th applicant
ADHAR_NUMBERS ==
    << <<"1", "1", "1", "1", "2", "2", "2", "2", "3", "3", "3", "3">>,
       <<"4", "4", "4", "4", "5", "5", "5", "5", "6", "6", "6", "6">>,
       <<"7", "7", "7", "7", "8", "8", "8", "8", "9", "9", "9", "9">>,
       <<"2", "2", "2", "2", "3", "3", "3", "3", "4", "4", "4", "4">> >>

EMAIL_A == <<" ", "A", "@", "X", ".", "c", "o", "m">>
EMAIL_B == <<"b", "@", "y", ".", "c", "o", "m">>
EMAIL_007 == <<"0", "0", "7">>

PCT_58 == <<"5", "8">>
PCT_59 == <<"5", "9">>
PCT_72 == <<"7", "2">>

\* what an applicant may type as email and total percentage
Applicants ==
    {<<EMAIL_A, PCT_58>>, <<EMAIL_A, PCT_59>>, <<EMAIL_B, PCT_59>>, <<EMAIL_B, PCT_72>>,
     <<BLANK, PCT_72>>, <<EMAIL_007, PCT_72>>}

CGPA_75 == <<"7", ".", "5">>

FormCells(k, email, pct, cgpa) ==
    <<S(SUBMISSION_IDS[k]), S(RESPONDENT_IDS[k]), S(SUBMITTED_AT[k]), S("Asha"), S("Rao"),
      <<"9", "8", "7", "6", "5", "4", "3", "2", "1", "0">>, email, ADHAR_NUMBERS[k],
      S("Female"), S("2001-05-04"), S("Goa"), S("Panaji"), S("BSc"),
      <<"2", "0", "2", "0">>, cgpa, pct, <<"2">> >>

\* the line the form appends for the k-th submission
FormLine(k, email, pct) == FormCells(k, email, pct, CGPA_75)

\* the Config tab of the output sheet: the parameters it lists
Configs == { "Min Percentage" :> <<"6", "0">> @@ "Exception Buffer PCT" :> <<"1">> }

-----------------------------------------------------------------------------
(* The run tracker *)

NewRun ==
    [raw_rows_read |-> 0, new_rows_found |-> 0, clean_written |-> 0,
     rejected_written |-> 0, exception_written |-> 0, exceptions_approved |-> 0,
     interview_added |-> 0, interview_total |-> 0, interview_not_selected |-> 0,
     status |-> "Running"]

\* the module-level names of the script before Step 1 has run
NoLocals ==
    /\ df = NoDF
    /\ all_raw_values = <<>>
    /\ pipeline_status_col = 0
    /\ email_to_sheet_row = <<>>
    /\ clean_df = NoDF
    /\ run = NewRun
    /\ errors = <<>>
    /\ clean_rows = <<>>
    /\ rejected_rows = <<>>
    /\ exception_rows = <<>>
    /\ pipeline_status_updates = <<>>

NoLocalsNext ==
    /\ df' = NoDF
    /\ all_raw_values' = <<>>
    /\ pipeline_status_col' = 0
    /\ email_to_sheet_row' = <<>>
    /\ clean_df' = NoDF
    /\ run' = NewRun
    /\ errors' = <<>>
    /\ clean_rows' = <<>>
    /\ rejected_rows' = <<>>
    /\ exception_rows' = <<>>
    /\ pipeline_status_updates' = <<>>

Init ==
    /\ raw = <<Names(RAW_HEADER)>>
    /\ config \in Configs
    /\ clean = <<>>
    /\ rejected = <<>>
    /\ exception = <<>>
    /\ scores = <<>>
    /\ interview = <<>>
    /\ runlog = <<>>
    /\ pc = "idle"
    /\ started = 0
    /\ NoLocals

sheets == <<raw, clean, rejected, exception, scores, interview, runlog>>

locals == <<df, all_raw_values, pipeline_status_col, email_to_sheet_row, clean_df, run,
            errors, clean_rows, rejected_rows, exception_rows, pipeline_status_updates>>

-----------------------------------------------------------------------------
(* The people around the script, acting between two executions *)

\* an applicant submits the form
Submit(email, pct) ==
    /\ pc = "idle"
    /\ Len(raw) - 1 < MaxRaw
    /\ raw' = Append(raw, IF S("Submission ID") \in Range(raw[1])
                          THEN FormLine(Len(raw), email, pct)
                          ELSE Tail(Tail(Tail(FormLine(Len(raw), email, pct)))))
    /\ UNCHANGED <<config, clean, rejected, exception, scores, interview, runlog, pc,
                   started, locals>>

PENDING  == <<"P", "e", "n", "d", "i", "n", "g">>
APPROVED == <<"A", "p", "p", "r", "o", "v", "e", "d">>
REJECTED == <<"R", "e", "j", "e", "c", "t", "e", "d">>

REVIEW_STATUSES == {APPROVED, REJECTED}

ReviewAt(i, c, status) ==
    /\ StripLower(CellAt(exception[i], c)) # Lower(status)
    /\ exception' = SetCell(exception, i, c, status)

\* a reviewer sets the Status cell of line i of the Exception tab
Review(i, status) ==
    /\ pc = "idle"
    /\ i \in 2..Len(exception)
    /\ S("Status") \in Range(exception[1])
    /\ ReviewAt(i, IndexOf(exception[1], S("Status")), status)
    /\ UNCHANGED <<raw, config, clean, rejected, scores, interview, runlog, pc,
                   started, locals>>

-----------------------------------------------------------------------------
(* The script.  Every step is one action; its argument names the store call *)
(* that raises in it, "none" when none does.                                *)

\* .astype(str).str.replace(r"[^0-9]", "", regex = True).str.strip()
DigitsOnly(cell) == Strip(OnlyDigits(AsStr(cell)))

\* lines 223-245: the standardised raw fields
Standardise(d) ==
    [cols |-> d.cols,
     rows |-> [i \in 1..Len(d.rows) |->
                 [c \in Range(d.cols) |->
                     IF c \in {S("First Name"), S("Last Name"), S("State"), S("City")}
                     THEN Title(d.rows[i][c])
                     ELSE IF c = S("Email Address") THEN StripLower(d.rows[i][c])
                     ELSE IF c = S("Phone Number") THEN normalise_phone(d.rows[i][c])
                     ELSE IF c = S("Adhar Number") THEN DigitsOnly(d.rows[i][c])
                     ELSE d.rows[i][c]]]]

STANDARDISED == <<"First Name", "Last Name", "Email Address", "Phone Number",
                  "Adhar Number", "State", "City">>

\* the process ends without reaching Step 6: exit(), or an exception outside
\* every try block
ProcessEnds ==
    /\ pc' = "idle"
    /\ NoLocalsNext

\* lines 248-260: the Pipeline Status column is added when the header lacks it,
\* then the tab is read again
Step1Read(d, col, raw2) ==
    /\ df' = Standardise(d)
    /\ run' = [NewRun EXCEPT !.raw_rows_read = Len(d.rows)]
    /\ raw' = raw2
    /\ pipeline_status_col' = col
    /\ all_raw_values' = get_all_values(raw2)
    /\ pc' = "step2"
    /\ UNCHANGED <<email_to_sheet_row, clean_df, errors, clean_rows, rejected_rows,
                   exception_rows, pipeline_status_updates>>

Step1Column(d, raw_headers) ==
    IF S("Pipeline Status") \in Range(raw_headers)
    THEN Step1Read(d, IndexOf(raw_headers, S("Pipeline Status")), raw)
    ELSE Step1Read(d, Len(raw_headers) + 1,
                   SetCell(raw, 1, Len(raw_headers) + 1, S("Pipeline Status")))

\* STEP 1 - read raw data and config
Step1(fault) ==
    /\ pc = "idle"
    /\ started < MaxRuns
    /\ started' = started + 1
    /\ UNCHANGED <<config, clean, rejected, exception, scores, interview, runlog>>
    /\ IF fault = "raw_read" \/ RecordsRaise(raw)
       THEN \* raw_ws.get_all_records() raises
            /\ ProcessEnds
            /\ UNCHANGED raw
       ELSE IF DFEmpty(RecordsDF(raw))
       THEN \* "Raw sheet is empty. Nothing to process." exit()
            /\ fault = "none"
            /\ ProcessEnds
            /\ UNCHANGED raw
       ELSE IF ~ConfigParses(config) \/ ~(Range(Names(STANDARDISED)) \subseteq Range(raw[1]))
       THEN \* float() or int() raises ValueError, or a column to standardise is
            \* missing (KeyError)
            /\ fault = "none"
            /\ ProcessEnds
            /\ UNCHANGED raw
       ELSE /\ fault = "none"
            /\ Step1Column(RecordsDF(raw), row_values1(raw))

\* lines 277-285: the emails of the raw lines whose Pipeline Status is not blank
AlreadyProcessedAt(values, ps, em) ==
    {StripLower(values[i][em]) : i \in {k \in 2..Len(values) : Strip(values[k][ps]) # <<>>}}

AlreadyProcessed(values) ==
    IF values # <<>> /\ S("Pipeline Status") \in Range(values[1])
       /\ S("Email Address") \in Range(values[1])
    THEN AlreadyProcessedAt(values, IndexOf(values[1], S("Pipeline Status")),
                            IndexOf(values[1], S("Email Address")))
    ELSE {}

LastRowOf(values, em, e) ==
    CHOOSE i \in 2..Len(values) :
        /\ StripLower(values[i][em]) = e
        /\ \A k \in 2..Len(values) : StripLower(values[k][em]) = e => k <= i

\* lines 309-315: email -> sheet row; a later line with the same email overwrites
\* the entry of an earlier one
EmailToSheetRowAt(values, em) ==
    [e \in {StripLower(values[i][em]) : i \in 2..Len(values)} |-> LastRowOf(values, em, e)]

EmailToSheetRow(values) ==
    IF values # <<>> /\ S("Email Address") \in Range(values[1])
    THEN EmailToSheetRowAt(values, IndexOf(values[1], S("Email Address")))
    ELSE <<>>

\* lines 301-305: the Aadhaar numbers of the rows already in a bucket
SeenAdhars(existing) ==
    IF ~DFEmpty(existing) /\ HasCol(existing, S("Adhar Number"))
    THEN {Strip(AsStr(existing.rows[i][S("Adhar Number")])) : i \in 1..Len(existing.rows)}
    ELSE {}

RAW_ONLY == {"Pipeline Status", "Submission ID", "Respondent ID", "Submitted at"}

RawOnly == {S(c) : c \in RAW_ONLY}

\* lines 427-431: row.to_dict() without the columns that belong to the Raw sheet
RowDict(row) == [c \in DOMAIN row \ RawOnly |-> row[c]]

\* a routing that looks at the soft failures first: not what the script does
RouteSoftFirst(row, hard_failures, soft_failures) ==
    IF soft_failures # <<>>
    THEN [bucket |-> "exception",
          dict   |-> RowDict(row) @@ (S("Exception Reason") :> Join(soft_failures))
                                  @@ (S("Status") :> PENDING)
                                  @@ (S("Reviewer Remark") :> BLANK)
                                  @@ (S("Flagged At") :> ts),
          status |-> "Processed - Exception"]
    ELSE IF hard_failures # <<>>
    THEN [bucket |-> "rejected",
          dict   |-> RowDict(row) @@ (S("Rejection Reasons") :> Join(hard_failures))
                                  @@ (S("Rejected At") :> ts),
          status |-> "Processed - Rejected"]
    ELSE [bucket |-> "clean",
          dict   |-> RowDict(row) @@ (S("Processed At") :> ts),
          status |-> "Processed - Clean"]

\* lines 436-459: the bucket of a row, the dict appended to it and the marker
Route(row, hard_failures, soft_failures) ==
    IF hard_failures # <<>>
    THEN [bucket |-> "rejected",
          dict   |-> RowDict(row) @@ (S("Rejection Reasons") :> Join(hard_failures))
                                  @@ (S("Rejected At") :> ts),
          status |-> "Processed - Rejected"]
    ELSE IF soft_failures # <<>>
    THEN [bucket |-> "exception",
          dict   |-> RowDict(row) @@ (S("Exception Reason") :> Join(soft_failures))
                                  @@ (S("Status") :> PENDING)
                                  @@ (S("Reviewer Remark") :> BLANK)
                                  @@ (S("Flagged At") :> ts),
          status |-> "Processed - Exception"]
    ELSE [bucket |-> "clean",
          dict   |-> RowDict(row) @@ (S("Processed At") :> ts),
          status |-> "Processed - Clean"]

\* the lists of Step 2 after one more row was routed
Routed(acc, v, r, sheet_row) ==
    [seen_emails |-> v.seen_emails,
     seen_adhars |-> v.seen_adhars,
     clean_rows |-> IF r.bucket = "clean" THEN Append(acc.clean_rows, r.dict)
                    ELSE acc.clean_rows,
     rejected_rows |-> IF r.bucket = "rejected" THEN Append(acc.rejected_rows, r.dict)
                       ELSE acc.rejected_rows,
     exception_rows |-> IF r.bucket = "exception" THEN Append(acc.exception_rows, r.dict)
                        ELSE acc.exception_rows,
     updates |-> IF sheet_row # 0 THEN Append(acc.updates, <<sheet_row, r.status>>)
                 ELSE acc.updates]

RouteRow(acc, row, v, e2r) ==
    Routed(acc, v, Route(row, v.hard_failures, v.soft_failures),
           IF RowEmail(row) \in DOMAIN e2r THEN e2r[RowEmail(row)] ELSE 0)

\* lines 321-459: the loop over the rows of df
RECURSIVE ValidateLoop(_, _, _, _, _)
ValidateLoop(rows, cfg, already_processed, e2r, acc) ==
    IF rows = <<>> THEN acc
    ELSE IF RowEmail(Head(rows)) \in already_processed
    THEN ValidateLoop(Tail(rows), cfg, already_processed, e2r, acc)
    ELSE ValidateLoop(Tail(rows), cfg, already_processed, e2r,
             RouteRow(acc, Head(rows),
                      Validate(Head(rows), cfg, acc.seen_emails, acc.seen_adhars), e2r))

\* raw_ws.batch_update(batch_data): the cells written in the order given
RECURSIVE BatchUpdate(_, _, _)
BatchUpdate(tab, col, updates) ==
    IF updates = <<>> THEN tab
    ELSE BatchUpdate(SetCell(tab, Head(updates)[1], col, S(Head(updates)[2])),
                     col, Tail(updates))

\* new_df[existing_df.columns.tolist()] after the missing columns were added blank
AlignTo(new_df, cols) ==
    [cols |-> cols,
     rows |-> [i \in 1..Len(new_df.rows) |->
                 [c \in Range(cols) |->
                     IF c \in Range(new_df.cols) THEN new_df.rows[i][c] ELSE BLANK]]]

Appended(tab, existing_df, aligned) ==
    [tab |-> tab \o ValuesOf(aligned), df |-> Concat(existing_df, aligned)]

\* append_sheet(sheet_obj, tab_name, new_df, existing_df): the tab after it and
\* the DataFrame it returns
append_sheet(tab, new_df, existing_df) ==
    IF DFEmpty(new_df) THEN [tab |-> tab, df |-> existing_df]
    ELSE IF DFEmpty(existing_df)
    THEN [tab |-> HeaderAndValues(FillNa(new_df)), df |-> FillNa(new_df)]
    ELSE Appended(tab, existing_df, AlignTo(FillNa(new_df), existing_df.cols))

Step2Lists(already_processed, e2r, existing_clean_df, existing_rejected_df, existing_exception_df) ==
    ValidateLoop(df.rows, config, already_processed, e2r,
        [seen_emails |-> already_processed,
         seen_adhars |-> SeenAdhars(existing_clean_df) \cup SeenAdhars(existing_rejected_df)
                         \cup SeenAdhars(existing_exception_df),
         clean_rows |-> <<>>, rejected_rows |-> <<>>, exception_rows |-> <<>>,
         updates |-> <<>>])

Step2Writes(e2r, acc, base, existing_clean_df, existing_rejected_df, existing_exception_df) ==
    [e2r |-> e2r,
     acc |-> acc,
     n   |-> Len(acc.clean_rows) + Len(acc.rejected_rows) + Len(acc.exception_rows),
     raw |-> BatchUpdate(raw, pipeline_status_col, acc.updates),
     clean |-> append_sheet(clean,
                   DataFrame(acc.clean_rows, Append(base, S("Processed At"))),
                   existing_clean_df),
     rejected |-> append_sheet(rejected,
                   DataFrame(acc.rejected_rows,
                             base \o <<S("Rejection Reasons"), S("Rejected At")>>),
                   existing_rejected_df),
     exception |-> append_sheet(exception,
                   DataFrame(acc.exception_rows,
                             base \o <<S("Exception Reason"), S("Status"),
                                       S("Reviewer Remark"), S("Flagged At")>>),
                   existing_exception_df)]

Step2With(e2r, existing_clean_df, existing_rejected_df, existing_exception_df) ==
    Step2Writes(e2r,
                Step2Lists(AlreadyProcessed(all_raw_values), e2r, existing_clean_df,
                           existing_rejected_df, existing_exception_df),
                SeqFilter(df.cols, Range(df.cols) \ RawOnly),
                existing_clean_df, existing_rejected_df, existing_exception_df)

\* what Step 2 computes from the tabs as Step 1 left them
Step2Result ==
    Step2With(EmailToSheetRow(all_raw_values), get_sheet_df(clean), get_sheet_df(rejected),
              get_sheet_df(exception))

Step2Do(fault, r) ==
    CASE fault = "batch_update" ->
           \* raw_ws.batch_update raises: nothing was written
           /\ r.acc.updates # <<>>
           /\ ProcessEnds
           /\ UNCHANGED <<raw, clean, rejected, exception>>
      [] fault = "append" ->
           \* the markers are written, the first append to a bucket raises
           /\ r.n > 0
           /\ raw' = r.raw
           /\ ProcessEnds
           /\ UNCHANGED <<clean, rejected, exception>>
      [] OTHER ->
           /\ raw' = r.raw
           /\ clean' = r.clean.tab
           /\ rejected' = r.rejected.tab
           /\ exception' = r.exception.tab
           /\ email_to_sheet_row' = r.e2r
           /\ clean_rows' = r.acc.clean_rows
           /\ rejected_rows' = r.acc.rejected_rows
           /\ exception_rows' = r.acc.exception_rows
           /\ pipeline_status_updates' = r.acc.updates
           /\ clean_df' = r.clean.df
           /\ run' = [run EXCEPT !.new_rows_found = r.n,
                                 !.clean_written = Len(r.acc.clean_rows),
                                 !.rejected_written = Len(r.acc.rejected_rows),
                                 !.exception_written = Len(r.acc.exception_rows)]
           /\ pc' = "step3"
           /\ UNCHANGED <<df, all_raw_values, pipeline_status_col, errors>>

\* STEP 2 - validate and segregate.  Nothing of it is inside a try block: a store
\* call that raises ends the process.
Step2(fault) ==
    /\ pc = "step2"
    /\ UNCHANGED <<config, scores, interview, runlog, started>>
    /\ Step2Do(fault, Step2Result)

EXCEPTION_ONLY == {"Exception Reason", "Flagged At", "Status", "Reviewer Remark",
                   "Pipeline Status"}

StripLowerStr(cell) == StripLower(AsStr(cell))

\* lines 527-528: the live Exception rows with Status stripped and lower-cased
LiveExceptions(tab) == SetCol(get_sheet_df(tab), S("Status"), StripLowerStr)

StatusIs(d, i, status) == d.rows[i][S("Status")] = Lower(status)

ApprovedRows(d) == {i \in 1..Len(d.rows) : StatusIs(d, i, APPROVED)}

NewTo(approved_df, live_clean_emails) ==
    RowsAt(approved_df,
           {i \in 1..Len(approved_df.rows) :
               approved_df.rows[i][S("Email Address")] \notin live_clean_emails})

\* lines 528-540: the approved rows whose email is not in the live Clean tab
TrulyNew(live_ex_df, live_clean_emails) ==
    NewTo(SetCol(RowsAt(live_ex_df, ApprovedRows(live_ex_df)),
                 S("Email Address"), StripLowerStr),
          live_clean_emails)

FirstRowOf(d, e) ==
    CHOOSE i \in 1..Len(d.rows) :
        /\ EmailOf(d.rows[i], S("Email Address")) = e
        /\ \A k \in 1..(i - 1) : EmailOf(d.rows[k], S("Email Address")) # e

\* the metadata cell c of the first raw line with email e, NaN when there is none
MetaOf(raw_full_df, e, c) ==
    IF e \in ColumnEmails(raw_full_df, S("Email Address"))
    THEN raw_full_df.rows[FirstRowOf(raw_full_df, e)][c]
    ELSE NAN

MergeOn(left, raw_full_df, existing_meta_cols) ==
    [cols |-> left.cols \o existing_meta_cols,
     rows |-> [i \in 1..Len(left.rows) |->
                 [c \in Range(left.cols) \cup Range(existing_meta_cols) |->
                     IF c \in Range(existing_meta_cols)
                     THEN MetaOf(raw_full_df, left.rows[i][S("Email Address")], c)
                     ELSE left.rows[i][c]]]]

MergeMetaCols(truly_new, raw_full_df, existing_meta_cols) ==
    IF existing_meta_cols = <<>> THEN truly_new
    ELSE MergeOn(DropCols(truly_new, Range(existing_meta_cols)), raw_full_df,
                 existing_meta_cols)

\* lines 554-585: truly_new.merge(meta_slim, on = "Email Address", how = "left"),
\* meta_slim holding the first raw line of each email
MergeMeta(truly_new, raw_full_df) ==
    MergeMetaCols(truly_new, raw_full_df,
                  SeqFilter(Names(TALLY_META), Range(raw_full_df.cols)))

Known(truly_new, e2r) ==
    SeqFilter([i \in 1..Len(truly_new.rows) |-> i],
              {i \in 1..Len(truly_new.rows) :
                  EmailOf(truly_new.rows[i], S("Email Address")) \in DOMAIN e2r})

MarkApproved(truly_new, e2r, idx) ==
    [k \in 1..Len(idx) |->
        <<e2r[EmailOf(truly_new.rows[idx[k]], S("Email Address"))], "Approved - Clean">>]

\* lines 608-616: the marker cells of the moved rows
PsUpdates(truly_new, e2r) == MarkApproved(truly_new, e2r, Known(truly_new, e2r))

ProcessedNow(cell) == ts

\* lines 543-602: the rows appended to Clean_Data
Moved(truly_new, raw_full_df) ==
    FillNa(DropCols(MergeMeta(SetCol(truly_new, S("Processed At"), ProcessedNow),
                              raw_full_df),
                    {S(c) : c \in EXCEPTION_ONLY}))

Step3Todo(live_ex_df, moved) ==
    [todo |-> TRUE, raises |-> FALSE,
     truly_new |-> moved,
     ps_updates |-> PsUpdates(moved, email_to_sheet_row),
     remaining |-> RowsAt(live_ex_df,
                          (1..Len(live_ex_df.rows)) \ ApprovedRows(live_ex_df))]

Step3Move(live_ex_df, truly_new) ==
    IF DFEmpty(truly_new) THEN [todo |-> FALSE, raises |-> FALSE]
    ELSE IF RecordsRaise(raw) \/ ~HasCol(RecordsDF(raw), S("Email Address"))
    THEN [todo |-> FALSE, raises |-> TRUE]
    ELSE Step3Todo(live_ex_df, Moved(truly_new, RecordsDF(raw)))

Step3Live(live_ex_df) ==
    IF ApprovedRows(live_ex_df) = {} THEN [todo |-> FALSE, raises |-> FALSE]
    ELSE IF ~HasCol(live_ex_df, S("Email Address")) THEN [todo |-> FALSE, raises |-> TRUE]
    ELSE Step3Move(live_ex_df,
                   TrulyNew(live_ex_df, get_sheet_emails(clean, S("Email Address"))))

\* what Step 3 is about to do: `todo` says whether it has rows to move, `raises`
\* whether it fails before its first write
Step3Plan ==
    IF DFEmpty(get_sheet_df(exception)) \/ ~HasCol(get_sheet_df(exception), S("Status"))
    THEN [todo |-> FALSE, raises |-> FALSE]
    ELSE Step3Live(LiveExceptions(exception))

STEP3_FAULTS == {"append", "batch_update", "clear", "update"}

Step3Error == <<"Step 3 error: ", "<e>">>

Step3Do(fault, p) ==
    IF ~p.todo
    THEN /\ fault = "none"
         /\ errors' = IF p.raises THEN Append(errors, Step3Error) ELSE errors
         /\ UNCHANGED <<raw, clean, exception, run>>
    ELSE CASE fault = "append" ->
               \* ws_clean.append_rows raises
               /\ errors' = Append(errors, Step3Error)
               /\ UNCHANGED <<raw, clean, exception, run>>
           [] fault = "batch_update" ->
               \* raw_ws.batch_update raises
               /\ p.ps_updates # <<>>
               /\ errors' = Append(errors, Step3Error)
               /\ clean' = clean \o ValuesOf(p.truly_new)
               /\ run' = [run EXCEPT !.exceptions_approved = Len(p.truly_new.rows)]
               /\ UNCHANGED <<raw, exception>>
           [] fault = "clear" ->
               \* ws_ex.clear raises
               /\ errors' = Append(errors, Step3Error)
               /\ clean' = clean \o ValuesOf(p.truly_new)
               /\ raw' = BatchUpdate(raw, pipeline_status_col, p.ps_updates)
               /\ run' = [run EXCEPT !.exceptions_approved = Len(p.truly_new.rows)]
               /\ UNCHANGED exception
           [] fault = "update" ->
               \* ws_ex.update raises after the tab was cleared
               /\ ~DFEmpty(p.remaining)
               /\ errors' = Append(errors, Step3Error)
               /\ clean' = clean \o ValuesOf(p.truly_new)
               /\ raw' = BatchUpdate(raw, pipeline_status_col, p.ps_updates)
               /\ exception' = <<>>
               /\ run' = [run EXCEPT !.exceptions_approved = Len(p.truly_new.rows)]
           [] OTHER ->
               /\ clean' = clean \o ValuesOf(p.truly_new)
               /\ raw' = BatchUpdate(raw, pipeline_status_col, p.ps_updates)
               /\ exception' = IF DFEmpty(p.remaining) THEN <<>>
                               ELSE HeaderAndValues(FillNa(p.remaining))
               /\ run' = [run EXCEPT !.exceptions_approved = Len(p.truly_new.rows)]
               /\ UNCHANGED errors

\* STEP 3 - exception handling, inside one try block
Step3(fault) ==
    /\ pc = "step3"
    /\ pc' = "step4"
    /\ UNCHANGED <<config, rejected, scores, interview, runlog, started, df,
                   all_raw_values, pipeline_status_col, email_to_sheet_row, clean_df,
                   clean_rows, rejected_rows, exception_rows, pipeline_status_updates>>
    /\ Step3Do(fault, Step3Plan)

SetMax(set) == CHOOSE m \in set : \A x \in set : x <= m

NotANumber == [ok |-> FALSE, n |-> 0, isfloat |-> TRUE]

\* pd.to_numeric(cell, errors = "coerce"): ok = FALSE is NaN; n in thousandths;
\* isfloat says whether the value alone makes the column float64
ToNumeric(cell) ==
    IF cell = NAN THEN NotANumber
    ELSE IF ParseInt(cell).ok
    THEN [ok |-> TRUE, n |-> 1000 * ParseInt(cell).n, isfloat |-> FALSE]
    ELSE IF ParseFloat(cell).ok
    THEN [ok |-> TRUE, n |-> ParseFloat(cell).n, isfloat |-> TRUE]
    ELSE NotANumber

\* str() of a number of an int64 or a float64 column
NumberText(n, isfloat) == IF isfloat THEN FormatFloat(n) ELSE FormatInt(n \div 1000)

InRange(v) == v.ok /\ v.n >= 0 /\ v.n <= 100000

\* a filter that keeps every number: not what the script does
AnyNumber(cell) == ToNumeric(cell).ok

\* .between(0, 100)
ValidScore(cell) == InRange(ToNumeric(cell))

ScoreOf(test_df, i) == ToNumeric(test_df.rows[i][S("Test Score")]).n

BestOf(test_df, valid, e) ==
    SetMax({ScoreOf(test_df, i) :
               i \in {k \in valid : EmailOf(test_df.rows[k], S("Email ID")) = e}})

SlimOf(test_df, valid) ==
    [emails  |-> {EmailOf(test_df.rows[i], S("Email ID")) : i \in valid},
     score   |-> [e \in {EmailOf(test_df.rows[i], S("Email ID")) : i \in valid} |->
                    BestOf(test_df, valid, e)],
     isfloat |-> \E i \in 1..Len(test_df.rows) :
                    ToNumeric(test_df.rows[i][S("Test Score")]).isfloat,
     invalid |-> Len(test_df.rows) - Cardinality(valid)]

\* lines 657-681: the highest valid score of each email, and the dtype of the column
TestSlim(test_df) ==
    SlimOf(test_df, {i \in 1..Len(test_df.rows) : ValidScore(test_df.rows[i][S("Test Score")])})

MergedWith(left, slim, isfloat) ==
    [cols |-> Append(left.cols, S("Test Score")),
     rows |-> [i \in 1..Len(left.rows) |->
                 [c \in Range(left.cols) \cup {S("Test Score")} |->
                     IF c = S("Test Score")
                     THEN IF left.rows[i][S("Email Address")] \in slim.emails
                          THEN NumberText(slim.score[left.rows[i][S("Email Address")]],
                                          isfloat)
                          ELSE NAN
                     ELSE left.rows[i][c]]]]

MergeLeft(left, slim) ==
    MergedWith(left, slim,
               slim.isfloat \/ \E i \in 1..Len(left.rows) :
                                  left.rows[i][S("Email Address")] \notin slim.emails)

\* lines 696-703: live_clean_df.merge(test_slim, on = "Email Address", how = "left")
MergeScores(live_clean_df, slim) ==
    MergeLeft(SetCol(DropCols(live_clean_df, {S("Test Score")}),
                     S("Email Address"), StripLowerStr),
              slim)

\* "<k> invalid test score(s) found"
InvalidScoresMsg(k) == FormatInt(k) \o <<" invalid test score(s) found">>

Step4Error == <<"Step 4 error: ", "<e>">>

\* the invalid scores are only printed: not what the script does
Unrecorded(slim) == errors

Noted(slim) ==
    IF slim.invalid > 0 THEN Append(errors, InvalidScoresMsg(slim.invalid)) ELSE errors

Step4Merge(fault, live_clean_df, slim) ==
    IF DFEmpty(live_clean_df) \/ ~HasCol(live_clean_df, S("Email Address"))
    THEN /\ fault = "none"
         /\ errors' = Noted(slim)
         /\ clean_df' = NoDF
         /\ UNCHANGED clean
    ELSE IF fault = "write"
    THEN \* write_sheet raises before it changed the tab
         /\ errors' = Append(Noted(slim), Step4Error)
         /\ clean_df' = live_clean_df
         /\ UNCHANGED clean
    ELSE /\ fault = "none"
         /\ errors' = Noted(slim)
         /\ clean' = HeaderAndValues(FillNa(MergeScores(live_clean_df, slim)))
         /\ clean_df' = MergeScores(live_clean_df, slim)

\* lines 722-726
TabNotFound == <<"'", "Sheet1", "' tab not found in Test Scores sheet">>

Step4Do(fault, test_df, live_clean_df) ==
    IF fault = "tab"
    THEN \* the Test Scores sheet has no tab of that name: WorksheetNotFound
         /\ errors' = Append(errors, TabNotFound)
         /\ clean_df' = live_clean_df
         /\ UNCHANGED clean
    ELSE IF fault = "read" \/ RecordsRaise(scores)
       \/ (~DFEmpty(test_df) /\ ~(HasCol(test_df, S("Test Score"))
                                  /\ HasCol(test_df, S("Email ID"))))
    THEN \* the read of the Test Scores tab, or a column access, raises
         /\ errors' = Append(errors, Step4Error)
         /\ clean_df' = live_clean_df
         /\ UNCHANGED clean
    ELSE IF DFEmpty(test_df)
    THEN /\ fault = "none"
         /\ UNCHANGED <<clean, clean_df, errors>>
    ELSE Step4Merge(fault, live_clean_df, TestSlim(test_df))

\* STEP 4 - map test scores, inside one try block
Step4(fault) ==
    /\ pc = "step4"
    /\ pc' = "step5"
    /\ UNCHANGED <<raw, config, rejected, exception, scores, interview, runlog, started,
                   df, all_raw_values, pipeline_status_col, email_to_sheet_row, run,
                   clean_rows, rejected_rows, exception_rows, pipeline_status_updates>>
    /\ Step4Do(fault, RecordsDF(scores), get_sheet_df(clean))

\* the positions of idx by key, highest first, equal keys in their old order
RECURSIVE SortDesc(_, _)
SortDesc(idx, key) ==
    IF idx = {} THEN <<>>
    ELSE SortDesc(idx \ {CHOOSE i \in idx : \A k \in idx : key[i] < key[k]
                                               \/ (key[i] = key[k] /\ i >= k)}, key)
         \o <<CHOOSE i \in idx : \A k \in idx : key[i] < key[k]
                                     \/ (key[i] = key[k] /\ i >= k)>>

\* NaN sorts after every number
SortKey(cell) == IF ToNumeric(cell).ok THEN ToNumeric(cell).n ELSE -1000000

SetPending(cell) == PENDING
SetBlank(cell) == BLANK

Scored(d) ==
    {i \in 1..Len(d.rows) : /\ d.rows[i][S("Test Score")] # NAN
                            /\ Strip(d.rows[i][S("Test Score")]) # <<>>
                            /\ ToNumeric(d.rows[i][S("Test Score")]).ok}

Shortlisted(d, min) ==
    {i \in Scored(d) : ToNumeric(d.rows[i][S("Test Score")]).n >= min}

\* every shortlisted row, whether the Interview sheet has its email or not: not
\* what the script does
ShortlistedAgain(d, min, existing_interview_emails) == Shortlisted(d, min)

NewShortlisted(d, min, existing_interview_emails) ==
    {i \in Shortlisted(d, min) :
        EmailOf(d.rows[i], S("Email Address")) \notin existing_interview_emails}

ScoreKeys(d, idx) == [i \in idx |-> SortKey(d.rows[i][S("Test Score")])]

\* lines 763-780: the new shortlisted rows, highest score first, with the three
\* interview columns
Added(d, new_shortlisted) ==
    SetCol(SetCol(SetCol(SetCol(
        Pick(d, SortDesc(new_shortlisted, ScoreKeys(d, new_shortlisted))),
        S("Email Address"), StripLowerStr),
        S("Interview Status"), SetPending),
        S("Interview Date"), SetBlank),
        S("Interviewer"), SetBlank)

Ranked(combined, order, rest, isfloat) ==
    [cols |-> <<S("Rank")>> \o rest,
     rows |-> [k \in 1..Len(order) |->
                 [c \in Range(rest) \cup {S("Rank")} |->
                     IF c = S("Rank") THEN FormatInt(k)
                     ELSE IF c = S("Test Score")
                     THEN IF ToNumeric(combined.rows[order[k]][c]).ok
                          THEN NumberText(ToNumeric(combined.rows[order[k]][c]).n, isfloat)
                          ELSE NAN
                     ELSE combined.rows[order[k]][c]]]]

\* the new rows ranked after the rows the sheet already had: not what the script
\* does
AppendedBelow(combined) ==
    Ranked(combined,
           [k \in 1..Len(combined.rows) |-> k],
           SeqFilter(combined.cols, Range(combined.cols) \ {S("Rank")}),
           \E i \in 1..Len(combined.rows) :
               ToNumeric(combined.rows[i][S("Test Score")]).isfloat)

\* every row of the sheet set back to Pending: not what the script does
AllPending(combined) ==
    SetCol(Ranked(combined,
                  SortDesc(1..Len(combined.rows), ScoreKeys(combined, 1..Len(combined.rows))),
                  SeqFilter(combined.cols, Range(combined.cols) \ {S("Rank")}),
                  \E i \in 1..Len(combined.rows) :
                      ToNumeric(combined.rows[i][S("Test Score")]).isfloat),
           S("Interview Status"), SetPending)

\* lines 783-790: existing and new together, sorted by score and ranked afresh
Combined(combined) ==
    Ranked(combined,
           SortDesc(1..Len(combined.rows), ScoreKeys(combined, 1..Len(combined.rows))),
           SeqFilter(combined.cols, Range(combined.cols) \ {S("Rank")}),
           \E i \in 1..Len(combined.rows) :
               ToNumeric(combined.rows[i][S("Test Score")]).isfloat)

\* the text of the exception alone: not what the script does
BareError == <<"<e>">>

Step5Error == <<"Step 5 error: ", "<e>">>

Step5Write(fault, tracked, new, combined) ==
    IF new = 0
    THEN /\ fault = "none"
         /\ run' = tracked
         /\ UNCHANGED <<interview, errors>>
    ELSE IF fault = "write"
    THEN \* write_sheet raises before it changed the tab
         /\ run' = tracked
         /\ errors' = Append(errors, Step5Error)
         /\ UNCHANGED interview
    ELSE /\ fault = "none"
         /\ interview' = HeaderAndValues(FillNa(combined))
         /\ run' = [tracked EXCEPT !.interview_added = new,
                                   !.interview_total = Len(combined.rows)]
         /\ UNCHANGED errors

Step5Screen(fault, min, existing_interview_emails, new_shortlisted) ==
    Step5Write(fault,
        [run EXCEPT !.interview_added = 0,
                    !.interview_total = Cardinality(existing_interview_emails),
                    !.interview_not_selected =
                        Cardinality(Scored(clean_df) \ Shortlisted(clean_df, min))],
        Cardinality(new_shortlisted),
        Combined(Concat(get_sheet_df(interview), Added(clean_df, new_shortlisted))))

Step5Do(fault, min, existing_interview_emails) ==
    Step5Screen(fault, min, existing_interview_emails,
                NewShortlisted(clean_df, min, existing_interview_emails))

\* STEP 5 - final screening, inside one try block
Step5(fault) ==
    /\ pc = "step5"
    /\ pc' = "step6"
    /\ UNCHANGED <<raw, config, clean, rejected, exception, scores, runlog, started, df,
                   all_raw_values, pipeline_status_col, email_to_sheet_row, clean_df,
                   clean_rows, rejected_rows, exception_rows, pipeline_status_updates>>
    /\ IF DFEmpty(clean_df) \/ ~HasCol(clean_df, S("Test Score"))
       THEN /\ fault = "none"
            /\ UNCHANGED <<interview, run, errors>>
       ELSE IF ~HasCol(clean_df, S("Email Address"))
       THEN \* shortlisted["Email Address"] raises KeyError
            /\ fault = "none"
            /\ errors' = Append(errors, Step5Error)
            /\ UNCHANGED <<interview, run>>
       ELSE Step5Do(fault, Threshold(config, "Min Test Score"),
                    get_sheet_emails(interview, S("Email Address")))

RUN_LOG_HEADERS ==
    <<"Run ID", "Start Time", "End Time", "Raw Rows Read", "New Rows Found",
      "Clean Written", "Rejected Written", "Exception Written", "Exceptions Approved",
      "Interview Added (This Run)", "Interview Total", "Interview Not Selected",
      "Errors", "Status">>

\* a status that looks at the errors alone: not what the script does
StatusByErrors(errs, new_rows_found) == IF errs # <<>> THEN "Failed" ELSE "Success"

\* lines 816-818
RunStatus(errs, new_rows_found) ==
    IF Len(errs) > 0 /\ new_rows_found = 0 THEN "Failed"
    ELSE IF errs # <<>> THEN "Partial"
    ELSE "Success"

\* lines 821-836
LogRow(r, errs) ==
    <<S("<run_id>"), ts, ts, FormatInt(r.raw_rows_read), FormatInt(r.new_rows_found),
      FormatInt(r.clean_written), FormatInt(r.rejected_written),
      FormatInt(r.exception_written), FormatInt(r.exceptions_approved),
      FormatInt(r.interview_added), FormatInt(r.interview_total),
      FormatInt(r.interview_not_selected),
      IF errs # <<>> THEN Join(errs) ELSE S("None"),
      S(RunStatus(errs, r.new_rows_found))>>

\* STEP 6 - write the run log; a failure of the write is printed and swallowed
Step6(fault) ==
    /\ pc = "step6"
    /\ UNCHANGED <<raw, config, clean, rejected, exception, scores, interview, started>>
    /\ runlog' = IF fault = "log"
                 THEN runlog
                 ELSE IF row_values1(runlog) = <<>>
                 THEN <<Names(RUN_LOG_HEADERS), LogRow(run, errors)>>
                 ELSE Append(runlog, LogRow(run, errors))
    /\ pc' = "idle"
    /\ NoLocalsNext

-----------------------------------------------------------------------------
(* The specifications *)

\* executions one after the other, every store call succeeding
Next ==
    \/ \E a \in Applicants : Submit(a[1], a[2])
    \/ \E i \in 2..(MaxRaw + 1), status \in REVIEW_STATUSES : Review(i, status)
    \/ Step1("none")
    \/ Step2("none")
    \/ Step3("none")
    \/ Step4("none")
    \/ Step5("none")
    \/ Step6("none")

Spec == Init /\ [][Next]_vars

\* the same with store calls that may raise
\* what an applicant types in the executions where store calls fail
FaultApplicants ==
    {<<EMAIL_A, PCT_58>>, <<EMAIL_A, PCT_59>>, <<EMAIL_B, PCT_59>>, <<EMAIL_B, PCT_72>>}

\* the Raw sheet with the columns Tally adds, or without them
RawHeaders == {Names(RAW_HEADER), Tail(Tail(Tail(Names(RAW_HEADER))))}

InitFault ==
    /\ \E h \in RawHeaders : raw = <<h>>
    /\ config \in Configs
    /\ clean = <<>>
    /\ rejected = <<>>
    /\ exception = <<>>
    /\ scores = <<>>
    /\ interview = <<>>
    /\ runlog = <<>>
    /\ pc = "idle"
    /\ started = 0
    /\ NoLocals

NextFault ==
    \/ \E a \in FaultApplicants : Submit(a[1], a[2])
    \/ \E i \in 2..(MaxRaw + 1), status \in REVIEW_STATUSES : Review(i, status)
    \/ \E fault \in {"none", "raw_read"} : Step1(fault)
    \/ \E fault \in {"none", "batch_update", "append"} : Step2(fault)
    \/ \E fault \in {"none"} \cup STEP3_FAULTS : Step3(fault)
    \/ Step4("none")
    \/ Step5("none")
    \/ \E fault \in {"none", "log"} : Step6(fault)

SpecFault == InitFault /\ [][NextFault]_vars

-----------------------------------------------------------------------------
(* The rules alone: one submission, one execution, over a range of values   *)
(* and thresholds                                                           *)

RuleEmails == {EMAIL_B, BLANK}

RulePercentages == {PCT_58, PCT_59, <<"5", "9", ".", "5">>, <<"6", "0">>, PCT_72}

RuleCgpas == {<<"5", ".", "9">>, <<"6">>, <<"6", ".", "1">>, <<"6", ".", "2">>, CGPA_75}

RuleConfigs ==
    { "Min Percentage" :> <<"6", "0">> @@ "Exception Buffer PCT" :> <<"1">>,
      "Min Percentage" :> <<"6", "0">> @@ "Exception Buffer PCT" :> <<"0", ".", "5">>,
      "Min CGPA" :> <<"6", ".", "2">> @@ "Exception Buffer CGPA" :> <<"0", ".", "1">> }

InitRules ==
    /\ \E e \in RuleEmails, p \in RulePercentages, c \in RuleCgpas :
           raw = <<Names(RAW_HEADER), FormCells(1, e, p, c)>>
    /\ config \in RuleConfigs
    /\ clean = <<>>
    /\ rejected = <<>>
    /\ exception = <<>>
    /\ scores = <<>>
    /\ interview = <<>>
    /\ runlog = <<>>
    /\ pc = "idle"
    /\ started = 0
    /\ NoLocals

NextRules ==
    \/ Step1("none")
    \/ Step2("none")

SpecRules == InitRules /\ [][NextRules]_vars

-----------------------------------------------------------------------------
(* The phone rule alone: one submission, one execution, over a range of     *)
(* phone numbers as applicants type them                                    *)

RulePhones ==
    { <<"9", "8", "7", "6", "5", "4", "3", "2", "1", "0">>,
      <<"+", "9", "1", " ", "9", "8", "7", "6", "5", " ", "4", "3", "2", "1", "0">>,
      <<"9", "1", "9", "8", "7", "6", "5", "4", "3", "2", "1", "0">>,
      <<"0", "9", "1", "9", "8", "7", "6", "5", "4", "3", "2", "1", "0">>,
      <<"0", "9", "1", "-", "5", "8", "7", "6", "5", "4", "3", "2", "1", "0">>,
      <<"0", "9", "8", "7", "6", "5", "4", "3", "2", "1", "0">>,
      <<"0", "5", "8", "7", "6", "5", "4", "3", "2", "1", "0">>,
      <<"5", "8", "7", "6", "5", "4", "3", "2", "1", "0">>,
      <<"9", "8", "7", "6", "5">>,
      <<"0", "0", "9", "1", "9", "8", "7", "6", "5", "4", "3", "2", "1", "0">>,
      <<"(", "0", ")", " ", "9", "8", "7", "6", "5", "-", "4", "3", "2", "1", "0">>,
      <<"9", "1", "9", "8", "7", "6", "5", "4", "3", "2">>,
      <<"0", "9", "8", "7", "6", "5", "4", "3", "2", "1">>,
      <<>>,
      <<"9", "1", "9", "8", "7", "6", "5", "4", "3", "2", "1">>,
      <<"6", "0", "0", "0", "0", "0", "0", "0", "0", "0">> }

\* the line the form appends for a submission with the phone number `phone`
PhoneLine(phone, email, pct) == [FormLine(1, email, pct) EXCEPT ![6] = phone]

InitPhone ==
    /\ \E phone \in RulePhones, e \in {EMAIL_A, EMAIL_B}, p \in {PCT_59, PCT_72} :
           raw = <<Names(RAW_HEADER), PhoneLine(phone, e, p)>>
    /\ config \in Configs
    /\ clean = <<>>
    /\ rejected = <<>>
    /\ exception = <<>>
    /\ scores = <<>>
    /\ interview = <<>>
    /\ runlog = <<>>
    /\ pc = "idle"
    /\ started = 0
    /\ NoLocals

SpecPhone == InitPhone /\ [][NextRules]_vars

-----------------------------------------------------------------------------
(* Batches whose rows share an email or an Aadhaar number *)

FIRST_NAMES == <<"Asha", "Bina", "Chitra", "Devi", "Esha">>

\* the line of the k-th submission, the applicant typing the Aadhaar number too;
\* every line has a first name of its own
TallyLine(k, email, adhar, pct) ==
    <<S(SUBMISSION_IDS[k]), S(RESPONDENT_IDS[k]), S(SUBMITTED_AT[k]), S(FIRST_NAMES[k]),
      S("Rao"), <<"9", "8", "7", "6", "5", "4", "3", "2", "1", "0">>, email, adhar,
      S("Female"), S("2001-05-04"), S("Goa"), S("Panaji"), S("BSc"),
      <<"2", "0", "2", "0">>, CGPA_75, pct, <<"2">> >>

\* what an applicant may type as email, Aadhaar number and total percentage
BatchApplicants ==
    {<<EMAIL_A, ADHAR_NUMBERS[1], PCT_58>>, <<EMAIL_A, ADHAR_NUMBERS[2], PCT_72>>,
     <<EMAIL_B, ADHAR_NUMBERS[1], PCT_72>>, <<EMAIL_B, ADHAR_NUMBERS[2], PCT_58>>}

\* an applicant submits the form
SubmitBatch(email, adhar, pct) ==
    /\ pc = "idle"
    /\ Len(raw) - 1 < MaxRaw
    /\ raw' = Append(raw, TallyLine(Len(raw), email, adhar, pct))
    /\ UNCHANGED <<config, clean, rejected, exception, scores, interview, runlog, pc,
                   started, locals>>

NextBatch ==
    \/ \E a \in BatchApplicants : SubmitBatch(a[1], a[2], a[3])
    \/ Step1("none")
    \/ Step2("none")
    \/ Step3("none")
    \/ Step4("none")
    \/ Step5("none")
    \/ Step6("none")

SpecBatch == Init /\ [][NextBatch]_vars

-----------------------------------------------------------------------------
(* The test scores: a Raw sheet of accepted applicants and a Test Scores    *)
(* sheet of up to MaxScores lines                                           *)

EMAIL_A_LOWER == <<"a", "@", "x", ".", "c", "o", "m">>
EMAIL_C == <<"c", "@", "z", ".", "c", "o", "m">>

SCORE_HEADER == <<"Email ID", "Test Score">>

\* the applicants of the first, second, ... line of the Raw sheet
SCORED_EMAILS == <<EMAIL_A, EMAIL_B, EMAIL_C>>

\* the lines an examiner may have put on the Test Scores sheet
ScoreLines ==
    { <<EMAIL_A, <<"5", "5">> >>, <<EMAIL_A_LOWER, <<"7", "2">> >>,
      <<EMAIL_A, <<"1", "3", "0">> >>, <<EMAIL_B, <<"a", "b", "c">> >>,
      <<EMAIL_B, <<"3", "5", ".", "5">> >> }

ScoreSheets == UNION {[1..n -> ScoreLines] : n \in 0..MaxScores}

\* an Aadhaar number typed in groups of four, the first digit a zero
ADHAR_GROUPED == <<"0", "1", "2", "3", " ", "4", "5", "6", "7", " ", "8", "9", "0", "1">>

\* the applicant of the first line types the number in groups
InitMerge ==
    /\ \E n \in 1..MaxRaw :
           raw = <<Names(RAW_HEADER)>>
                 \o [k \in 1..n |->
                        TallyLine(k, SCORED_EMAILS[k],
                                  IF k = 1 THEN ADHAR_GROUPED ELSE ADHAR_NUMBERS[k], PCT_72)]
    /\ config \in Configs
    /\ clean = <<>>
    /\ rejected = <<>>
    /\ exception = <<>>
    /\ \E lines \in ScoreSheets : scores = <<Names(SCORE_HEADER)>> \o lines
    /\ interview = <<>>
    /\ runlog = <<>>
    /\ pc = "idle"
    /\ started = 0
    /\ NoLocals

NextMerge ==
    \/ Step1("none")
    \/ Step2("none")
    \/ Step3("none")
    \/ Step4("none")
    \/ Step5("none")
    \/ Step6("none")

SpecMerge == InitMerge /\ [][NextMerge]_vars

-----------------------------------------------------------------------------
(* Applicants who share an Aadhaar number, in one batch or in later ones    *)

\* what an applicant may type as email, Aadhaar number and total percentage: the
\* first two type the same number in groups, the last two the same number plain
AdharApplicants ==
    {<<EMAIL_A, ADHAR_GROUPED, PCT_72>>, <<EMAIL_B, ADHAR_GROUPED, PCT_72>>,
     <<EMAIL_B, ADHAR_NUMBERS[2], PCT_59>>, <<EMAIL_C, ADHAR_NUMBERS[2], PCT_72>>}

NextAdhar ==
    \/ \E a \in AdharApplicants : SubmitBatch(a[1], a[2], a[3])
    \/ \E i \in 2..(MaxRaw + 1) : Review(i, APPROVED)
    \/ Step1("none")
    \/ Step2("none")
    \/ Step3("none")
    \/ Step4("none")
    \/ Step5("none")
    \/ Step6("none")

SpecAdhar == Init /\ [][NextAdhar]_vars

-----------------------------------------------------------------------------
(* Steps that fail: an accepted applicant and some for the reviewer, scores *)
(* for two of them, and store calls that raise in Steps 3, 4 and 5          *)

RecoverScores ==
    <<Names(SCORE_HEADER), <<EMAIL_A, <<"9", "0">> >>, <<EMAIL_B, <<"8", "0">> >> >>

\* the Raw sheet holds an applicant to accept and, after it, applicants for the
\* reviewer
InitRecover ==
    /\ \E n \in 1..MaxRaw :
           raw = <<Names(RAW_HEADER)>>
                 \o [k \in 1..n |-> TallyLine(k, SCORED_EMAILS[k], ADHAR_NUMBERS[k], IF k = 1 THEN PCT_72 ELSE PCT_59)]
    /\ config \in Configs
    /\ clean = <<>>
    /\ rejected = <<>>
    /\ exception = <<>>
    /\ scores = RecoverScores
    /\ interview = <<>>
    /\ runlog = <<>>
    /\ pc = "idle"
    /\ started = 0
    /\ NoLocals

NextRecover ==
    \/ \E i \in 2..(MaxRaw + 1) : Review(i, APPROVED)
    \/ Step1("none")
    \/ Step2("none")
    \/ \E fault \in {"none", "append", "clear"} : Step3(fault)
    \/ \E fault \in {"none", "tab", "read", "write"} : Step4(fault)
    \/ \E fault \in {"none", "write"} : Step5(fault)
    \/ Step6("none")

SpecRecover == InitRecover /\ [][NextRecover]_vars

-----------------------------------------------------------------------------
(* The Config tab: values that are numbers, values that are not, parameters *)
(* that are absent                                                          *)

ABSENT == <<"<absent>">>

\* what the Value cell of a parameter of the Config tab may hold, as str() shows
\* it
ConfigCells ==
    [{"Min Percentage"} -> {ABSENT, <<"6", "0">>, <<"6", "5", ".", "5">>,
                            <<"s", "i", "x", "t", "y">>, BLANK}]
    \cup [{"Graduation Year Min"} -> {<<"2", "0", "1", "2">>, <<"2", "0", "1", "0", ".", "5">>}]
    \cup [{"Min Test Score"} -> {<<"5", "0">>, <<"n", "/", "a">>}]

\* the parameters of a Config tab that holds the cells f
Present(f) == [p \in {q \in DOMAIN f : f[q] # ABSENT} |-> f[p]]

InitConfig ==
    /\ raw = <<Names(RAW_HEADER)>>
    /\ \E f \in ConfigCells : config = Present(f)
    /\ clean = <<>>
    /\ rejected = <<>>
    /\ exception = <<>>
    /\ scores = <<>>
    /\ interview = <<>>
    /\ runlog = <<>>
    /\ pc = "idle"
    /\ started = 0
    /\ NoLocals

NextConfig ==
    \/ \E a \in FaultApplicants : Submit(a[1], a[2])
    \/ Step1("none")
    \/ Step2("none")
    \/ Step3("none")
    \/ Step4("none")
    \/ Step5("none")
    \/ Step6("none")

SpecConfig == InitConfig /\ [][NextConfig]_vars

-----------------------------------------------------------------------------
(* The shortlist: applicants arrive between the executions, the Test Scores *)
(* sheet is complete from the start, an interviewer fills in the Interview  *)
(* sheet                                                                    *)

\* the Test Scores sheets of the shortlist executions: whole numbers, or some
\* with decimals and one below Min Test Score
ShortlistScores ==
    { << <<EMAIL_A, <<"9", "0">> >>, <<EMAIL_B, <<"8", "0">> >>, <<EMAIL_C, <<"9", "5">> >> >>,
      << <<EMAIL_A, <<"9", "0">> >>, <<EMAIL_B, <<"3", "5", ".", "5">> >>,
         <<EMAIL_C, <<"9", "5", ".", "5">> >> >> }

ShortlistApplicants == {<<EMAIL_A, PCT_72>>, <<EMAIL_B, PCT_72>>, <<EMAIL_C, PCT_72>>}

InitShortlist ==
    /\ raw = <<Names(RAW_HEADER)>>
    /\ config \in Configs
    /\ clean = <<>>
    /\ rejected = <<>>
    /\ exception = <<>>
    /\ \E lines \in ShortlistScores : scores = <<Names(SCORE_HEADER)>> \o lines
    /\ interview = <<>>
    /\ runlog = <<>>
    /\ pc = "idle"
    /\ started = 0
    /\ NoLocals

SCHEDULED == <<"Scheduled">>
INTERVIEW_DAY == <<"2026-01-10">>
INTERVIEWER == <<"Dr Iyer">>

\* the interviewer schedules the candidate of line i of the Interview sheet
Schedule(i) ==
    /\ pc = "idle"
    /\ i \in 2..Len(interview)
    /\ CellAt(interview[i], IndexOf(interview[1], S("Interview Status"))) = PENDING
    /\ interview' =
           SetCell(SetCell(SetCell(interview,
                       i, IndexOf(interview[1], S("Interview Status")), SCHEDULED),
                       i, IndexOf(interview[1], S("Interview Date")), INTERVIEW_DAY),
                       i, IndexOf(interview[1], S("Interviewer")), INTERVIEWER)
    /\ UNCHANGED <<raw, config, clean, rejected, exception, scores, runlog, pc, started,
                   locals>>

NextShortlist ==
    \/ \E a \in ShortlistApplicants : Submit(a[1], a[2])
    \/ \E i \in 2..(MaxRaw + 1) : Schedule(i)
    \/ Step1("none")
    \/ Step2("none")
    \/ Step3("none")
    \/ Step4("none")
    \/ Step5("none")
    \/ Step6("none")

SpecShortlist == InitShortlist /\ [][NextShortlist]_vars

-----------------------------------------------------------------------------
(* What the sheets and the lists of Step 2 show *)

\* the reasons recorded for the one row of a single-row batch
ReasonsOf(rej, exc) ==
    IF rej # <<>> THEN rej[1][S("Rejection Reasons")]
    ELSE IF exc # <<>> THEN exc[1][S("Exception Reason")]
    ELSE BLANK

\* the cell of column `name` on line k of the Raw tab
RawCell(k, name) ==
    IF S(name) \in Range(raw[1]) THEN CellAt(raw[k], IndexOf(raw[1], S(name))) ELSE BLANK

\* the email of line k of the Raw tab, stripped and lower-cased
RawEmail(k) == StripLower(RawCell(k, "Email Address"))

RawEmails == {RawEmail(k) : k \in 2..Len(raw)} \ {BLANK}

\* the lines of a tab that hold the text e in one of their cells
LinesWith(tab, e) ==
    {i \in 1..Len(tab) : \E j \in 1..Len(tab[i]) : StripLower(tab[i][j]) = e}

\* the cell of column `name` on line i of the Exception tab
ExceptionCell(i, name) ==
    IF S(name) \in Range(exception[1])
    THEN CellAt(exception[i], IndexOf(exception[1], S(name))) ELSE BLANK

\* the lines of the Exception tab a reviewer approved
ApprovedLines ==
    {i \in 2..Len(exception) : StripLower(ExceptionCell(i, "Status")) = Lower(APPROVED)}

\* the rows of the run log
LogRows == IF runlog = <<>> THEN 0 ELSE Len(runlog) - 1

\* row i of df is classified by this execution of Step 2
Classified(i) == RowEmail(df.rows[i]) \notin AlreadyProcessed(all_raw_values)

\* row i of df is the first of the batch with its email, and the email is well-formed
FirstValid(i) ==
    /\ MatchEmail(RowEmail(df.rows[i]))
    /\ \A k \in 1..(i - 1) : RowEmail(df.rows[k]) # RowEmail(df.rows[i])

\* the dict of df row i is in the list `rows` (every form line has an Aadhaar
\* number of its own)
InList(rows, i) ==
    \E k \in 1..Len(rows) : rows[k][S("Adhar Number")] = df.rows[i][S("Adhar Number")]

\* the dict of df row i is in the list `rows`, with `txt` in its column `col`
InListWith(rows, i, col, txt) ==
    \E k \in 1..Len(rows) :
        /\ rows[k][S("Adhar Number")] = df.rows[i][S("Adhar Number")]
        /\ Contains(rows[k][S(col)], txt)

-----------------------------------------------------------------------------
(* Disposition precedence *)

\* C4: a row classified by Step 2 is appended to exactly one of the three lists:
\* to rejected_rows when it has a hard failure, and then the reasons recorded are
\* the hard failures alone; otherwise to exception_rows when it has a soft
\* failure; otherwise to clean_rows.
C4_Precedence ==
    (pc = "step3" /\ Len(df.rows) = 1) =>
        LET v == Validate(df.rows[1], config, {}, {})
        IN /\ Len(clean_rows) + Len(rejected_rows) + Len(exception_rows) = 1
           /\ v.hard_failures # <<>> =>
                  /\ Len(rejected_rows) = 1
                  /\ rejected_rows[1][S("Rejection Reasons")] = Join(v.hard_failures)
                  /\ \A k \in 1..Len(v.soft_failures) :
                         ~Contains(rejected_rows[1][S("Rejection Reasons")],
                                   v.soft_failures[k])
           /\ (v.hard_failures = <<>> /\ v.soft_failures # <<>>) =>
                  /\ Len(exception_rows) = 1
                  /\ exception_rows[1][S("Exception Reason")] = Join(v.soft_failures)
           /\ (v.hard_failures = <<>> /\ v.soft_failures = <<>>) => Len(clean_rows) = 1

\* a row with a blank email and a percentage inside the buffer was rejected
C4_Witness ==
    /\ pc = "step3"
    /\ Len(df.rows) = 1
    /\ Len(rejected_rows) = 1
    /\ RowEmail(df.rows[1]) = BLANK
    /\ Validate(df.rows[1], config, {}, {}).soft_failures # <<>>

-----------------------------------------------------------------------------
(* The buffer boundary *)

CGPA_HARD == <<" is below minimum ">>
CGPA_SOFT == <<" is slightly below minimum ">>
PCT_HARD == <<"% is below minimum ">>
PCT_SOFT == <<"% is slightly below minimum ">>

\* the reading of the boundary in exact arithmetic, everything in thousandths:
\* below min - buf the row is rejected with the hard reason of the field; from
\* min - buf up to min it carries no hard reason of the field and, unless it is
\* rejected for something else, is an exception with the soft reason; from min
\* on neither reason is recorded
Boundary(v, min, buf, hard, soft, rej, exc) ==
    /\ v < min - buf => (rej # <<>> /\ Contains(ReasonsOf(rej, exc), hard))
    /\ (min - buf <= v /\ v < min) =>
           /\ ~Contains(ReasonsOf(rej, exc), hard)
           /\ rej = <<>> => (exc # <<>> /\ Contains(ReasonsOf(rej, exc), soft))
    /\ v >= min => (~Contains(ReasonsOf(rej, exc), hard)
                    /\ ~Contains(ReasonsOf(rej, exc), soft))

\* C5: for a CGPA v in 0..10 (a percentage v in 0..100): v < min - buffer gives
\* a hard reason, min - buffer <= v < min (v = min - buffer included) a soft
\* reason, v >= min no reason for the field.
C5_BufferBoundary ==
    (pc = "step3" /\ Len(df.rows) = 1) =>
        /\ Boundary(ParseFloat(Field(df.rows[1], "CGPA")).n, Threshold(config, "Min CGPA"),
                    Threshold(config, "Exception Buffer CGPA"), CGPA_HARD, CGPA_SOFT,
                    rejected_rows, exception_rows)
        /\ Boundary(ParseFloat(Field(df.rows[1], "Total Percentage")).n,
                    Threshold(config, "Min Percentage"),
                    Threshold(config, "Exception Buffer PCT"), PCT_HARD, PCT_SOFT,
                    rejected_rows, exception_rows)

-----------------------------------------------------------------------------
(* Idempotence of Step 2 *)

\* C1: when Step 2 runs over the raw snapshot the logged execution before it
\* read (the Raw tab only grows, so the same number of rows read means the same
\* rows), it classifies nothing: new_rows_found = 0.
C1_Idempotent ==
    (/\ pc = "step3"
     /\ LogRows >= 1
     /\ runlog[Len(runlog)][4] = FormatInt(run.raw_rows_read))
        => run.new_rows_found = 0

-----------------------------------------------------------------------------
(* Disjointness of the three tables *)

-----------------------------------------------------------------------------
(* The end-to-end scenario: Min Percentage 60, Exception Buffer PCT 1 *)

Scenario2 ==
    \A i \in 1..Len(df.rows) :
        /\ (/\ Field(df.rows[i], "Total Percentage") = PCT_58
            /\ Classified(i)
            /\ FirstValid(i)) => InListWith(rejected_rows, i, "Rejection Reasons", PCT_58)
        /\ (/\ Field(df.rows[i], "Total Percentage") = PCT_59
            /\ Classified(i)
            /\ FirstValid(i)) => InListWith(exception_rows, i, "Exception Reason", PCT_59)

-----------------------------------------------------------------------------
(* Exception migration *)

\* the Tally metadata of the first raw line with email e are on line l of tab
MetaOn(tab, l, e) ==
    \E k \in 2..Len(raw) :
        /\ RawEmail(k) = e
        /\ \A m \in 2..(k - 1) : RawEmail(m) # e
        /\ \A j \in 1..Len(TALLY_META) :
               S(TALLY_META[j]) \in Range(raw[1])
                   => RawCell(k, TALLY_META[j]) \in Range(tab[l])

\* C6: a Step 3 that ends without an error appends no line for an approved
\* exception whose email the Clean tab already holds; an approved exception whose
\* email the Clean tab does not hold is appended with the metadata of its raw line
\* and is gone from the Exception tab.
C6_Migration ==
    [][(pc = "step3" /\ pc' = "step4" /\ errors' = errors) =>
           \A i \in ApprovedLines :
               LET e == StripLower(ExceptionCell(i, "Email Address"))
               IN  e # BLANK =>
                       IF LinesWith(clean, e) # {}
                       THEN LinesWith(clean', e) = LinesWith(clean, e)
                       ELSE /\ \E l \in LinesWith(clean', e) : MetaOn(clean', l, e)
                            /\ LinesWith(exception', e) = {}]_vars

-----------------------------------------------------------------------------
(* Crash safety of Step 3 *)

\* C7: an email that was moved from the exceptions to the Clean tab is on one
\* line of the Clean tab, never on two, whatever store call failed since.
C7_MigratedOnce ==
    \A k \in 2..Len(raw) :
        RawCell(k, "Pipeline Status") = S("Approved - Clean")
            => Cardinality(LinesWith(clean, RawEmail(k))) <= 1

\* C8: after a Step 3 that ended without an error no line of the Exception tab
\* has the status Approved.
C8_NoApprovedRemains ==
    (pc = "step4" /\ errors = <<>>) => ApprovedLines = {}

-----------------------------------------------------------------------------
(* Marker write-back *)

\* the marker of the list that holds the dict of df row i
MarkerOf(i) ==
    IF InList(clean_rows, i) THEN "Processed - Clean"
    ELSE IF InList(rejected_rows, i) THEN "Processed - Rejected"
    ELSE "Processed - Exception"

\* C9: after Step 2 every row it classified has, in the Pipeline Status cell of
\* its own line of the Raw tab, the marker of the list it was appended to.
C9_MarkerWriteBack ==
    pc = "step3" =>
        \A i \in 1..Len(df.rows) :
            Classified(i) => CellAt(raw[i + 1], pipeline_status_col) = S(MarkerOf(i))

-----------------------------------------------------------------------------
(* The run record *)

\* C10: every execution that has ended has appended one row to the run log.
C10_RunRecord == pc = "idle" => LogRows = started

-----------------------------------------------------------------------------
(* Executions one after the other *)

\* the lines of the Clean, Rejected and Exception tabs that hold the Aadhaar
\* number of line k of the Raw tab (every form line has a number of its own)
BucketLines(k) ==
    Cardinality(LinesWith(clean, RawCell(k, "Adhar Number")))
    + Cardinality(LinesWith(rejected, RawCell(k, "Adhar Number")))
    + Cardinality(LinesWith(exception, RawCell(k, "Adhar Number")))

\* C11: when the executions follow one another, no line of the Raw tab is
\* appended to the Clean, Rejected and Exception tabs by more than one of them:
\* it is on at most one line of the three tabs together.
C11_AppendedOnce == \A k \in 2..Len(raw) : BucketLines(k) <= 1

-----------------------------------------------------------------------------
(* Duplicates inside one batch *)

DUPLICATE_EMAIL == <<"Duplicate email: '">>
DUPLICATE_ADHAR == <<"Duplicate Aadhaar: '">>

\* the dict of df row i is in the list `rows` (rows told apart by first name)
Listed(rows, i) ==
    \E k \in 1..Len(rows) : rows[k][S("First Name")] = df.rows[i][S("First Name")]

\* the dict of df row i is in the rejected list with `txt` among its reasons
RejectedFor(rej, i, txt) ==
    \E k \in 1..Len(rej) :
        /\ rej[k][S("First Name")] = df.rows[i][S("First Name")]
        /\ Contains(rej[k][S("Rejection Reasons")], txt)

\* an earlier classified row of the batch has the email of row i
EarlierEmail(i) ==
    \E k \in 1..(i - 1) : Classified(k) /\ RowEmail(df.rows[k]) = RowEmail(df.rows[i])

\* an earlier classified row of the batch has the Aadhaar number of row i
EarlierAdhar(i) ==
    \E k \in 1..(i - 1) :
        /\ Classified(k)
        /\ Field(df.rows[k], "Adhar Number") = Field(df.rows[i], "Adhar Number")

\* a line of the Clean, Rejected or Exception tab holds the text a
InBuckets(a) ==
    LinesWith(clean, a) # {} \/ LinesWith(rejected, a) # {} \/ LinesWith(exception, a) # {}

\* C12: of the rows one Step 2 classifies, a row whose email an earlier one has
\* is rejected with a duplicate-email reason and the first row with an email has
\* no such reason; the same for the Aadhaar number, when no line of the three
\* tabs held it before the step.
C12_BatchDuplicates ==
    [][(pc = "step2" /\ pc' = "step3") =>
          \A i \in 1..Len(df.rows) :
              Classified(i) =>
                  /\ EarlierEmail(i) <=> RejectedFor(rejected_rows', i, DUPLICATE_EMAIL)
                  /\ ~InBuckets(Field(df.rows[i], "Adhar Number")) =>
                        (EarlierAdhar(i) <=> RejectedFor(rejected_rows', i, DUPLICATE_ADHAR))]_vars

\* a batch of classified rows: the first was rejected for its percentage and not
\* as a duplicate, the second has its Aadhaar number and another email and was
\* rejected as a duplicate Aadhaar number
C12_Witness ==
    /\ pc = "step3"
    /\ Len(df.rows) >= 2
    /\ Classified(1) /\ Classified(2)
    /\ RejectedFor(rejected_rows, 1, PCT_HARD)
    /\ ~RejectedFor(rejected_rows, 1, DUPLICATE_ADHAR)
    /\ RejectedFor(rejected_rows, 2, DUPLICATE_ADHAR)
    /\ ~RejectedFor(rejected_rows, 2, DUPLICATE_EMAIL)

-----------------------------------------------------------------------------
(* The test scores *)

\* the cell of column `name` on line i of a tab, blank when the tab has no such
\* column
TabCell(tab, i, name) ==
    IF S(name) \in Range(tab[1]) THEN CellAt(tab[i], IndexOf(tab[1], S(name))) ELSE BLANK

\* the text is a number from 0 to 100
InRange100(txt) ==
    ParseFloat(txt).ok /\ 0 <= ParseFloat(txt).n /\ ParseFloat(txt).n <= 100000

\* the lines of the Test Scores tab with the email e, any case, and a score that
\* is a number from 0 to 100
ValidLines(e) ==
    {i \in 2..Len(scores) :
        /\ StripLower(TabCell(scores, i, "Email ID")) = e
        /\ InRange100(TabCell(scores, i, "Test Score"))}

\* the highest score of the valid lines of the email e, in thousandths
BestScore(e) == SetMax({ParseFloat(TabCell(scores, i, "Test Score")).n : i \in ValidLines(e)})

\* Step 4 had test scores and accepted applicants to merge
Merged == pc = "step5" /\ Len(scores) >= 2 /\ Len(clean) >= 2

\* C13: after Step 4 merged the scores, the Test Score of every line of the Clean
\* tab is the highest of the scores from 0 to 100 the Test Scores tab holds for
\* its email, whatever the case of the email there; lines of the Test Scores tab
\* whose score is no number or outside 0..100 count for nothing, and an email with
\* no other line has a blank Test Score.
C13_ScoreDedup ==
    Merged =>
        /\ S("Test Score") \in Range(clean[1])
        /\ \A l \in 2..Len(clean) :
               LET e == StripLower(TabCell(clean, l, "Email Address"))
               IN  IF ValidLines(e) = {}
                   THEN TabCell(clean, l, "Test Score") = BLANK
                   ELSE /\ ParseFloat(TabCell(clean, l, "Test Score")).ok
                        /\ ParseFloat(TabCell(clean, l, "Test Score")).n = BestScore(e)

\* the Test Scores tab holds 55, 72 and 130 for the first applicant, under two
\* spellings of the email, and the Clean tab shows 72
C13_Witness ==
    /\ Merged
    /\ Cardinality(ValidLines(EMAIL_A_LOWER)) = 2
    /\ \E i \in 2..Len(scores) :
           /\ StripLower(TabCell(scores, i, "Email ID")) = EMAIL_A_LOWER
           /\ ~InRange100(TabCell(scores, i, "Test Score"))
    /\ \E l \in 2..Len(clean) :
           /\ TabCell(clean, l, "Email Address") = EMAIL_A_LOWER
           /\ ParseFloat(TabCell(clean, l, "Test Score")).n = 72000

\* the columns of the Clean tab other than the score
OtherColumns(tab) == {j \in 1..Len(tab[1]) : tab[1][j] # S("Test Score")}

\* C14: when Step 4 merges the scores it rewrites the Clean tab with the lines it
\* found there, as many and in the same order, every cell outside the Test Score
\* column as it was; a score whose email the tab does not hold adds no line.
C14_MergePreserves ==
    [][(pc = "step4" /\ pc' = "step5" /\ Len(scores) >= 2 /\ Len(clean) >= 2) =>
           /\ Len(clean') = Len(clean)
           /\ \A l \in 1..Len(clean) : \A j \in OtherColumns(clean) :
                  CellAt(clean'[l], j) = CellAt(clean[l], j)]_vars

-----------------------------------------------------------------------------
(* The shortlist *)

\* the emails of the lines of a tab, trimmed and in lower case
TabEmails(tab) == {StripLower(TabCell(tab, l, "Email Address")) : l \in 2..Len(tab)}

\* the Test Score of line l of a tab, in thousandths
LineScore(tab, l) == ParseFloat(TabCell(tab, l, "Test Score")).n

\* line l of the Clean tab has a number for Test Score, and it reaches Min Test
\* Score
Qualifies(l) ==
    /\ ParseFloat(TabCell(clean, l, "Test Score")).ok
    /\ LineScore(clean, l) >= Threshold(config, "Min Test Score")

\* the emails of the Accepted rows that qualify and that the Interview tab does
\* not hold
NewlyShortlisted ==
    {StripLower(TabCell(clean, l, "Email Address")) : l \in {k \in 2..Len(clean) : Qualifies(k)}}
        \ TabEmails(interview)

\* Step 5 writes the Interview tab
Step5Writes == pc = "step5" /\ pc' = "step6" /\ interview' # interview

\* the lines of a tab under its header
Lines(tab) == IF tab = <<>> THEN 0 ELSE Len(tab) - 1

\* C15: whenever Step 5 writes the Interview tab, the lines written are those of
\* the rows the tab had and of the newly shortlisted rows, the Test Scores never
\* rise from one line to the next, and the Rank of the k-th line is k.
C15_Rerank ==
    [][Step5Writes =>
          /\ TabEmails(interview') = TabEmails(interview) \cup NewlyShortlisted
          /\ Lines(interview') = Lines(interview) + Cardinality(NewlyShortlisted)
          /\ \A l \in 2..Len(interview') :
                 /\ TabCell(interview', l, "Rank") = FormatInt(l - 1)
                 /\ l < Len(interview') => LineScore(interview', l) >= LineScore(interview', l + 1)]_vars

\* Step 5 has just added one row to a shortlist of one: the new row has the
\* higher score and Rank 1, the row the interviewer had scheduled has Rank 2
C15_Witness ==
    /\ pc = "step6"
    /\ run.interview_added = 1
    /\ Len(interview) = 3
    /\ TabCell(interview, 2, "Interview Status") = PENDING
    /\ TabCell(interview, 2, "Rank") = FormatInt(1)
    /\ TabCell(interview, 3, "Interview Status") = SCHEDULED
    /\ TabCell(interview, 3, "Rank") = FormatInt(2)
    /\ LineScore(interview, 2) > LineScore(interview, 3)

\* the lines of the Clean tab with the email e that qualify
QualifyingLines(e) ==
    {l \in 2..Len(clean) : StripLower(TabCell(clean, l, "Email Address")) = e /\ Qualifies(l)}

\* C16: Step 5 adds an email to the Interview tab only if a line of the Clean tab
\* with that email has a number for Test Score that reaches Min Test Score and
\* the Interview tab did not hold the email; so, at every moment, no email is on
\* two lines of the Interview tab and no line of it has a score under Min Test
\* Score.
C16_Admission ==
    /\ [](/\ Cardinality(TabEmails(interview)) = Lines(interview)
          /\ \A l \in 2..Len(interview) :
                 LineScore(interview, l) >= Threshold(config, "Min Test Score"))
    /\ [][(pc = "step5" /\ pc' = "step6") =>
             \A l \in 2..Len(interview') :
                 LET e == StripLower(TabCell(interview', l, "Email Address"))
                 IN  e \notin TabEmails(interview) => QualifyingLines(e) # {}]_vars

\* the second execution is through Step 5: the Clean tab has a row with a score
\* under Min Test Score, which is not on the Interview tab, and a row that was
\* shortlisted before, which was not added again
C16_Witness ==
    /\ pc = "step6"
    /\ started >= 2
    /\ run.interview_not_selected = 1
    /\ run.interview_added = 0
    /\ Lines(interview) = 1
    /\ Lines(clean) = 2
    /\ TabEmails(interview) \subseteq TabEmails(clean)
    /\ \E l \in 2..Len(clean) :
           /\ ParseFloat(TabCell(clean, l, "Test Score")).ok
           /\ ~Qualifies(l)
           /\ StripLower(TabCell(clean, l, "Email Address")) \notin TabEmails(interview)

\* two cells show the same value: the same text, or the same number written
\* another way (90 and 90.0)
SameValue(a, b) ==
    \/ a = b
    \/ ParseFloat(a).ok /\ ParseFloat(b).ok /\ ParseFloat(a).n = ParseFloat(b).n

\* the lines of a tab with the email e
EmailLines(tab, e) == {l \in 2..Len(tab) : StripLower(TabCell(tab, l, "Email Address")) = e}

\* C17: over a Step 5, every line the Interview tab had is still there with the
\* same value in every column but Rank (Interview Status, Interview Date,
\* Interviewer, the email and the score among them), and every line that is new
\* has Interview Status Pending and a blank Interview Date and Interviewer.
C17_ShortlistFrame ==
    [][(pc = "step5" /\ pc' = "step6") =>
          /\ \A l \in 2..Len(interview) :
                 \E m \in 2..Len(interview') :
                     \A j \in 1..Len(interview[1]) :
                         interview[1][j] # S("Rank") =>
                             /\ interview[1][j] \in Range(interview'[1])
                             /\ SameValue(CellAt(interview'[m], IndexOf(interview'[1], interview[1][j])),
                                          CellAt(interview[l], j))
          /\ \A m \in 2..Len(interview') :
                 EmailLines(interview, StripLower(TabCell(interview', m, "Email Address"))) = {} =>
                     /\ TabCell(interview', m, "Interview Status") = PENDING
                     /\ TabCell(interview', m, "Interview Date") = BLANK
                     /\ TabCell(interview', m, "Interviewer") = BLANK]_vars

\* Step 5 has just added a row above a row that the interviewer had scheduled:
\* that row still shows the interviewer's entries and its score of 90
C17_Witness ==
    /\ pc = "step6"
    /\ run.interview_added = 1
    /\ Len(interview) = 3
    /\ TabCell(interview, 2, "Interview Status") = PENDING
    /\ TabCell(interview, 2, "Interview Date") = BLANK
    /\ TabCell(interview, 2, "Interviewer") = BLANK
    /\ TabCell(interview, 3, "Interview Status") = SCHEDULED
    /\ TabCell(interview, 3, "Interview Date") = INTERVIEW_DAY
    /\ TabCell(interview, 3, "Interviewer") = INTERVIEWER
    /\ LineScore(interview, 3) = 90000

-----------------------------------------------------------------------------
(* The run log *)

\* Step 6 appends a line to the Run Log tab
Step6Logs == pc = "step6" /\ pc' = "idle" /\ Len(runlog') = Lines(runlog) + 2

\* C18: the line Step 6 appends to the Run Log tab shows the new rows the
\* execution found and, for Status, "Failed" when the execution had errors and
\* found no new row, "Partial" when it had errors and found new rows, "Success"
\* when it had no error.
C18_RunStatus ==
    [][Step6Logs =>
          /\ TabCell(runlog', Len(runlog'), "New Rows Found") = FormatInt(run.new_rows_found)
          /\ (errors # <<>> /\ run.new_rows_found = 0) =>
                 TabCell(runlog', Len(runlog'), "Status") = S("Failed")
          /\ (errors # <<>> /\ run.new_rows_found > 0) =>
                 TabCell(runlog', Len(runlog'), "Status") = S("Partial")
          /\ errors = <<>> => TabCell(runlog', Len(runlog'), "Status") = S("Success")]_vars

\* two executions are logged, both with an error about invalid test scores: the
\* first found new rows and is Partial, the second found none and is Failed
C18_Witness ==
    /\ Len(runlog) >= 3
    /\ TabCell(runlog, 2, "Errors") # S("None")
    /\ TabCell(runlog, 2, "New Rows Found") # FormatInt(0)
    /\ TabCell(runlog, 2, "Status") = S("Partial")
    /\ TabCell(runlog, 3, "Errors") # S("None")
    /\ TabCell(runlog, 3, "New Rows Found") = FormatInt(0)
    /\ TabCell(runlog, 3, "Status") = S("Failed")

-----------------------------------------------------------------------------
(* Steps that fail *)

\* the step after a step
AfterStep(step) ==
    CASE step = "step3" -> "step4" [] step = "step4" -> "step5" [] step = "step5" -> "step6"

\* the tag of the messages of a step
StepTag(step) ==
    CASE step = "step3" -> "Step 3 error: "
      [] step = "step4" -> "Step 4 error: "
      [] step = "step5" -> "Step 5 error: "

\* the step raises: it ends with one message more that is not the count of the
\* invalid scores
Raises(step) ==
    /\ pc = step
    /\ Len(errors') > Len(errors)
    /\ errors'[Len(errors')] # InvalidScoresMsg(1)
    /\ errors'[Len(errors')] # InvalidScoresMsg(2)

\* when the step raises, the messages the execution had are kept, the last
\* message has a first piece from `tags`, and the next step is the one to run
Recovers(step, tags) ==
    Raises(step) =>
        /\ SubSeq(errors', 1, Len(errors)) = errors
        /\ errors'[Len(errors')][1] \in tags
        /\ pc' = AfterStep(step)

\* when Step 4 raises, Step 5 gets the Clean tab as the store holds it
Rereads == Raises("step4") => clean_df' = get_sheet_df(clean')

\* C19, as the specification states it: when Step 3, Step 4 or Step 5 raises,
\* the message added to the errors starts with the tag of the step, the next
\* step runs, and after a failure of Step 4, Step 5 works on the Clean tab read
\* again from the store.
C19_StepTagged ==
    [][/\ \A step \in {"step3", "step4", "step5"} : Recovers(step, {StepTag(step)})
       /\ Rereads]_vars

\* C19, amended: the same, but when what Step 4 raises is that the Test Scores
\* sheet has no tab "Sheet1", the message is "'Sheet1' tab not found in Test
\* Scores sheet", with no tag of the step.
C19_Recovery ==
    [][/\ Recovers("step3", {StepTag("step3")})
       /\ Recovers("step4", {StepTag("step4"), "'"})
       /\ Recovers("step5", {StepTag("step5")})
       /\ Rereads]_vars

\* Steps 3, 4 and 5 of one execution have all raised and Step 6 is next: Step 3
\* on an approved row, Step 4 on the missing tab, Step 5 on the write of a row
\* it shortlisted from the Clean tab read again
C19_Witness ==
    /\ pc = "step6"
    /\ errors = <<Step3Error, TabNotFound, Step5Error>>
    /\ clean_df = get_sheet_df(clean)
    /\ Len(clean) >= 2

-----------------------------------------------------------------------------
(* The Config tab *)

\* an execution starts and the Raw tab has a row to read
StartsOnRows == pc = "idle" /\ started' = started + 1 /\ Len(raw) >= 2

\* C20: resolving the thresholds never stops the execution: when an execution
\* starts and the Raw tab has a row, Step 2 is next, whatever the Value cells of
\* the Config tab hold.
C20_NeverFails == [][StartsOnRows => pc' = "step2"]_vars

-----------------------------------------------------------------------------
(* The marker of a migrated row *)

APPROVED_CLEAN == <<"Approved - Clean">>

\* Step 3 ends without an error and moves line i of the Exception tab to the
\* Clean tab
Migrates(i) ==
    /\ pc = "step3" /\ pc' = "step4" /\ errors' = errors
    /\ i \in ApprovedLines
    /\ StripLower(ExceptionCell(i, "Email Address")) # BLANK
    /\ LinesWith(clean, StripLower(ExceptionCell(i, "Email Address"))) = {}
    /\ LinesWith(clean', ExceptionCell(i, "Adhar Number")) # {}

\* C21: when Step 3 moves an approved line of the Exception tab to the Clean tab,
\* the line of the Raw tab it came from (the one with its Aadhaar number) has
\* "Approved - Clean" in its Pipeline Status cell after the step, also when
\* other lines of the Raw tab have the same email.
C21_MigratedMarker ==
    [][\A i \in 2..Len(exception) :
          Migrates(i) =>
              \A k \in 2..Len(raw) :
                  RawCell(k, "Adhar Number") = ExceptionCell(i, "Adhar Number")
                      => TabCell(raw', k, "Pipeline Status") = APPROVED_CLEAN]_vars

-----------------------------------------------------------------------------
(* The columns of the Raw tab on the three tabs *)

\* the header of a tab, no columns when the tab is empty
HeaderOf(tab) == IF tab = <<>> THEN {} ELSE Range(tab[1])

\* line l of the Exception tab shows the submission metadata of the line of the
\* Raw tab it came from (the one with its Aadhaar number)
KeepsMeta(l) ==
    \E k \in 2..Len(raw) :
        /\ RawCell(k, "Adhar Number") = ExceptionCell(l, "Adhar Number")
        /\ \A j \in 1..Len(TALLY_META) :
               S(TALLY_META[j]) \in Range(raw[1]) =>
                   /\ S(TALLY_META[j]) \in Range(exception[1])
                   /\ ExceptionCell(l, TALLY_META[j]) = RawCell(k, TALLY_META[j])

\* C22: after Step 2 the Clean and the Rejected tab have neither the Pipeline
\* Status column nor a column of the submission metadata; the Exception tab has
\* no Pipeline Status column, and every line of it shows the Submission ID, the
\* Respondent ID and the Submitted at of its line of the Raw tab.
C22_Metadata ==
    pc = "step3" =>
        /\ HeaderOf(clean) \cap RawOnly = {}
        /\ HeaderOf(rejected) \cap RawOnly = {}
        /\ S("Pipeline Status") \notin HeaderOf(exception)
        /\ \A l \in 2..Len(exception) : KeepsMeta(l)

-----------------------------------------------------------------------------
(* What an append leaves of a tab *)

\* the text a row dict gives for the column c: blank when it has none
DictCell(dict, c) == IF c \in DOMAIN dict /\ dict[c] # NAN THEN dict[c] ELSE BLANK

\* the tab `after` is the tab `before` with one line more for every dict of
\* `rows`: the lines it had are as they were, and every new line has the columns
\* of the header it had, in that order, blank where the dict has no such column;
\* an empty tab gets a header and the new lines
AppendFrame(before, after, rows) ==
    IF rows = <<>> THEN after = before
    ELSE IF before = <<>> THEN Len(after) = Len(rows) + 1
    ELSE /\ Len(after) = Len(before) + Len(rows)
         /\ \A l \in 1..Len(before) : after[l] = before[l]
         /\ \A l \in (Len(before) + 1)..Len(after) :
                /\ Len(after[l]) = Len(before[1])
                /\ \A j \in 1..Len(before[1]) :
                       after[l][j] = DictCell(rows[l - Len(before)], before[1][j])

\* C23: over a Step 2, each of the Clean, Rejected and Exception tabs that had
\* lines keeps them as they were and gets the new rows after them, aligned to its
\* header; a tab that was empty gets a header and the new rows.
C23_AppendFrame ==
    [][(pc = "step2" /\ pc' = "step3") =>
          /\ AppendFrame(clean, clean', clean_rows')
          /\ AppendFrame(rejected, rejected', rejected_rows')
          /\ AppendFrame(exception, exception', exception_rows')]_vars

-----------------------------------------------------------------------------
(* The phone rule *)

\* the last ten of the digits d
LastTen(d) == SubSeq(d, Len(d) - 9, Len(d))

\* the digits d without the prefix the rule recognises: 091 before ten digits,
\* else 91 before ten digits, else 0 before ten digits
LocalNumber(d) ==
    IF Len(d) = 13 /\ SubSeq(d, 1, 3) = <<"0", "9", "1">> THEN LastTen(d)
    ELSE IF Len(d) = 12 /\ SubSeq(d, 1, 2) = <<"9", "1">> THEN LastTen(d)
    ELSE IF Len(d) = 11 /\ d[1] = "0" THEN LastTen(d)
    ELSE d

\* ten digits, the first from 6 to 9
TenDigits(d) == Len(d) = 10 /\ d[1] \in {"6", "7", "8", "9"}

\* the phone number of the only row, as get_all_records() returns it
PhoneRead == Numericise(RawCell(2, "Phone Number"))

\* C24: the Phone Number of a row after Step 1 is the digits of the cell as it
\* was read, without a prefix 091, 91 or 0 that leaves ten digits; and a row
\* that Step 2 classifies and whose number is not ten digits starting with 6 to 9,
\* an empty number too, is rejected.
C24_PhoneRule ==
    (pc = "step3" /\ Len(df.rows) = 1) =>
        /\ df.rows[1][S("Phone Number")] = LocalNumber(OnlyDigits(PhoneRead))
        /\ ~TenDigits(df.rows[1][S("Phone Number")]) =>
               /\ Len(rejected_rows) = 1
               /\ clean_rows = <<>>
               /\ exception_rows = <<>>

\* the applicant typed 091-5876543210 and nothing else is wrong with the row:
\* the prefix 091 is removed, 5876543210 starts with 5 and the row is rejected
C24_Witness ==
    /\ pc = "step3"
    /\ Len(OnlyDigits(RawCell(2, "Phone Number"))) = 13
    /\ RawCell(2, "Total Percentage") = PCT_72
    /\ df.rows[1][S("Phone Number")] = <<"5", "8", "7", "6", "5", "4", "3", "2", "1", "0">>
    /\ Len(rejected_rows) = 1
    /\ Contains(rejected_rows[1][S("Rejection Reasons")], <<"Invalid phone '">>)

-----------------------------------------------------------------------------
(* One Aadhaar number, one applicant *)

\* the lines of the Clean and of the Exception tab, each with its Aadhaar number
AdharLines ==
    {<<"Clean", l, OnlyDigits(TabCell(clean, l, "Adhar Number"))>> : l \in 2..Len(clean)}
    \cup {<<"Exceptions", l, OnlyDigits(TabCell(exception, l, "Adhar Number"))>> : l \in 2..Len(exception)}

\* the tab holds the Aadhaar number a on one of its lines
HoldsAdhar(tab, a) == \E l \in 2..Len(tab) : OnlyDigits(TabCell(tab, l, "Adhar Number")) = a

\* C25: between the executions no two lines of the Clean and Exception tabs have
\* the same Aadhaar number; and a row Step 2 classifies whose number has 12
\* digits and is on a line of the Clean, Rejected or Exception tab, or on an
\* earlier classified row of the batch, is rejected as a duplicate.
C25_AdharUnique ==
    /\ [](pc = "idle" =>
             \A x, y \in AdharLines : x[3] = y[3] => x = y)
    /\ [][(pc = "step2" /\ pc' = "step3") =>
             \A i \in 1..Len(df.rows) :
                 LET a == Field(df.rows[i], "Adhar Number")
                 IN  (/\ Classified(i)
                      /\ MatchAdhar(a)
                      /\ \/ HoldsAdhar(clean, a) \/ HoldsAdhar(rejected, a)
                         \/ HoldsAdhar(exception, a) \/ EarlierAdhar(i))
                         => RejectedFor(rejected_rows', i, DUPLICATE_ADHAR)]_vars

-----------------------------------------------------------------------------
(* The line Step 3 appends to Clean_Data *)

\* the line holds the row's values under the header's names: every header column
\* has the row's value of that name, blank when the row has none, and every
\* value of the row stands under a column of its name
Aligned(header, line, row) ==
    /\ Len(line) = Len(header)
    /\ \A j \in 1..Len(header) : line[j] = DictCell(row, header[j])
    /\ \A c \in DOMAIN row :
           DictCell(row, c) # BLANK => \E j \in 1..Len(header) : header[j] = c

\* C26: every line Step 3 appends to the Clean tab holds the values of the
\* approved row under the Clean columns of the same names, as a line written
\* by append_sheet does, whatever the header of the Clean tab is.
C26_Aligned ==
    [][(pc = "step3" /\ pc' = "step4" /\ Len(clean') > Len(clean)) =>
          /\ clean # <<>>
          /\ \A l \in (Len(clean) + 1)..Len(clean') :
                 Aligned(clean[1], clean'[l], Step3Plan.truly_new.rows[l - Len(clean)])]_vars

-----------------------------------------------------------------------------
(* Rows without a marker *)

\* the number of bucket lists of this execution that hold row i of df
BucketsOf(cl, rj, ex, i) ==
    (IF InList(cl, i) THEN 1 ELSE 0) + (IF InList(rj, i) THEN 1 ELSE 0)
    + (IF InList(ex, i) THEN 1 ELSE 0)

\* C27: Step 2 puts every raw row whose own Pipeline Status cell is empty into
\* exactly one bucket, and skips a row only when its own marker is not empty,
\* whatever the markers of other rows with the same email are.
C27_NoneLeftBehind ==
    [][(pc = "step2" /\ pc' = "step3") =>
          \A i \in 1..Len(df.rows) :
              IF Strip(RawCell(i + 1, "Pipeline Status")) = BLANK
              THEN BucketsOf(clean_rows', rejected_rows', exception_rows', i) = 1
              ELSE BucketsOf(clean_rows', rejected_rows', exception_rows', i) = 0]_vars

-----------------------------------------------------------------------------
(* The life of a marker *)

STEP2_MARKERS == {S("Processed - Clean"), S("Processed - Rejected"), S("Processed - Exception")}

\* the Pipeline Status cell of line k of the raw sheet goes from `was` to `is`
MarkerStep(was, is) ==
    \/ is = was
    \/ was = BLANK /\ is \in STEP2_MARKERS
    \/ was = S("Processed - Exception") /\ is = APPROVED_CLEAN

\* C28: in every step of the script and of the reviewer, the Pipeline Status
\* cell of a raw line either stays, or goes from empty to one of the three
\* markers of Step 2, or from the Exception marker to the Approved marker.
C28_MarkerLifecycle ==
    [][\A k \in 2..Len(raw) :
           k <= Len(raw') =>
               MarkerStep(RawCell(k, "Pipeline Status"), TabCell(raw', k, "Pipeline Status"))]_vars

-----------------------------------------------------------------------------
(* Invalid rows of the Test Scores sheet *)

\* no step of the execution raised: all that `errors` holds are notes of Step 4
\* about invalid test scores
OnlyInvalidScores ==
    \A j \in 1..Len(errors) : \E k \in 1..MaxScores : errors[j] = InvalidScoresMsg(k)

\* C29: an execution in which no step raises and no tab is missing is logged
\* with no error and with Status "Success", also when the Test Scores sheet has
\* rows with an invalid score.
C29_OnlyDiagnostic ==
    [][(Step6Logs /\ OnlyInvalidScores) =>
          /\ TabCell(runlog', Len(runlog'), "Errors") = S("None")
          /\ TabCell(runlog', Len(runlog'), "Status") = S("Success")]_vars

\* the rows of the Test Scores sheet, as Step 4 reads them, whose score is not
\* a number from 0 to 100
InvalidScoreRows ==
    {i \in 1..Len(RecordsDF(scores).rows) :
        ~ValidScore(RecordsDF(scores).rows[i][S("Test Score")])}

\* C29, as the script behaves: an execution in which no step raises and the
\* Test Scores sheet has k > 0 rows with an invalid score is logged with the
\* error "k invalid test score(s) found", and its Status is "Partial" when it
\* found new rows and "Failed" when it found none; with no invalid score it is
\* logged with Errors "None" and Status "Success".
C29_InvalidRecorded ==
    [][(Step6Logs /\ OnlyInvalidScores) =>
          IF InvalidScoreRows = {}
          THEN /\ TabCell(runlog', Len(runlog'), "Errors") = S("None")
               /\ TabCell(runlog', Len(runlog'), "Status") = S("Success")
          ELSE /\ TabCell(runlog', Len(runlog'), "Errors")
                      = InvalidScoresMsg(Cardinality(InvalidScoreRows))
               /\ TabCell(runlog', Len(runlog'), "Status")
                      = IF run.new_rows_found = 0 THEN S("Failed") ELSE S("Partial")]_vars

\* the first execution found a new row and two invalid scores and is logged as
\* Partial; the second found the same two scores and no new row: Failed
C29_Witness ==
    /\ Len(runlog) >= 3
    /\ Cardinality(InvalidScoreRows) = 2
    /\ TabCell(runlog, 2, "Errors") = InvalidScoresMsg(2)
    /\ TabCell(runlog, 2, "Status") = S("Partial")
    /\ TabCell(runlog, 3, "Errors") = InvalidScoresMsg(2)
    /\ TabCell(runlog, 3, "Status") = S("Failed")

-----------------------------------------------------------------------------
(* The counters of the run record *)

\* C30: when Step 5 is over, skipped or not, interview_added is the number of
\* lines it added to the Interview sheet and interview_total the number of
\* lines the sheet holds; and when Step 6 logs the execution, new_rows_found
\* is the sum of the three written counters and interview_total still is the
\* number of lines of the Interview sheet.
C30_Counters ==
    /\ [][(pc = "step5" /\ pc' = "step6") =>
             /\ run'.interview_added = Lines(interview') - Lines(interview)
             /\ run'.interview_total = Lines(interview')]_vars
    /\ [][Step6Logs =>
             /\ run.new_rows_found
                    = run.clean_written + run.rejected_written + run.exception_written
             /\ run.interview_total = Lines(interview)]_vars

====
